---- MODULE Spec2Model ----
(***************************************************************************)
(* SEMEC-SISTEMA: the upsert-and-aggregation model of the attendance       *)
(* ("folha") servers.  The repository holds several independent server     *)
(* programs (each a complete Express + PostgreSQL application).  Each      *)
(* program is modelled as a state machine over its two tables; the         *)
(* variable `variant` says which program of the repository is running.     *)
(*                                                                         *)
(* Strings are sequences of one-character strings, so that trimming, the   *)
(* YYYY-MM pattern and number parsing are computed as the code computes    *)
(* them.  Numbers are integers counting thousandths (Scale), so that 3.5   *)
(* is 3500 and truncation, rounding and summation are exact.               *)
(***************************************************************************)
EXTENDS Integers, Sequences, FiniteSets, TLC

VARIABLES variant, env, emp, rec, nextId, req, resp

vars == <<variant, env, emp, rec, nextId, req, resp>>

(***************************************************************************)
(* Bounds of the model.                                                    *)
(***************************************************************************)
\* The serial column of a record table hands out the ids 1..MaxId.
MaxId == 2

\* Thousandths per unit: 3.5 is 3500.
Scale == 10 * 10 * 10

(***************************************************************************)
(* JavaScript / SQL values.                                                *)
(***************************************************************************)
Undef == [k |-> "undefined", s |-> <<>>, n |-> 0]
Null == [k |-> "null", s |-> <<>>, n |-> 0]
NaN == [k |-> "NaN", s |-> <<>>, n |-> 0]
Str(s) == [k |-> "string", s |-> s, n |-> 0]
Num(n) == [k |-> "number", s |-> <<>>, n |-> n]

\* An integer literal, e.g. Whole(2) is the JavaScript number 2.
Whole(i) == Num(i * Scale)

IsStr(v) == v.k = "string"
IsNum(v) == v.k = "number"
IsNullish(v) == v.k \in {"undefined", "null"}

Digits == {"0", "1", "2", "3", "4", "5", "6", "7", "8", "9"}
DigitVal(c) ==
  CASE c = "0" -> 0 [] c = "1" -> 1 [] c = "2" -> 2 [] c = "3" -> 3
    [] c = "4" -> 4 [] c = "5" -> 5 [] c = "6" -> 6 [] c = "7" -> 7
    [] c = "8" -> 8 [] c = "9" -> 9
DigitChar(d) ==
  CASE d = 0 -> "0" [] d = 1 -> "1" [] d = 2 -> "2" [] d = 3 -> "3"
    [] d = 4 -> "4" [] d = 5 -> "5" [] d = 6 -> "6" [] d = 7 -> "7"
    [] d = 8 -> "8" [] d = 9 -> "9"
IsSpace(c) == c = " "

\* String.prototype.trim
RECURSIVE TrimLeft(_)
TrimLeft(s) ==
  IF s # <<>> /\ IsSpace(Head(s)) THEN TrimLeft(Tail(s)) ELSE s
RECURSIVE TrimRight(_)
TrimRight(s) ==
  IF s # <<>> /\ IsSpace(s[Len(s)]) THEN TrimRight(SubSeq(s, 1, Len(s) - 1)) ELSE s
Trim(s) == TrimRight(TrimLeft(s))

\* The longest prefix of s made of digits.
RECURSIVE DigitPrefix(_)
DigitPrefix(s) ==
  IF s # <<>> /\ Head(s) \in Digits THEN <<Head(s)>> \o DigitPrefix(Tail(s)) ELSE <<>>

\* The value of a sequence of digits.
RECURSIVE DigitsVal(_)
DigitsVal(s) ==
  IF s = <<>> THEN 0 ELSE DigitsVal(SubSeq(s, 1, Len(s) - 1)) * 10 + DigitVal(s[Len(s)])

\* The digits of a natural number.
RECURSIVE NatToStr(_)
NatToStr(i) ==
  IF i < 10 THEN <<DigitChar(i)>> ELSE NatToStr(i \div 10) \o <<DigitChar(i % 10)>>

\* The fraction digits of f thousandths, trailing zeros dropped.
FracToStr(f) ==
  IF f % 100 = 0 THEN <<DigitChar(f \div 100)>>
  ELSE IF f % 10 = 0 THEN <<DigitChar(f \div 100), DigitChar((f \div 10) % 10)>>
  ELSE <<DigitChar(f \div 100), DigitChar((f \div 10) % 10), DigitChar(f % 10)>>

\* Number.prototype.toString of n thousandths.
NumToStr(n) ==
  LET a == IF n < 0 THEN -n ELSE n
      body == NatToStr(a \div Scale)
                \o (IF a % Scale = 0 THEN <<>> ELSE <<".">> \o FracToStr(a % Scale))
  IN IF n < 0 THEN <<"-">> \o body ELSE body

\* Thousandths denoted by the fraction digits d (at most three are kept).
FracVal(d) ==
  LET d3 == SubSeq(d \o <<"0", "0", "0">>, 1, 3) IN DigitsVal(d3)

\* An unsigned decimal literal: digits, optionally a point and digits.
UnsignedVal(s) ==
  LET ip == DigitPrefix(s)
      rest == SubSeq(s, Len(ip) + 1, Len(s))
  IN IF rest = <<>> THEN (IF ip = <<>> THEN NaN ELSE Num(DigitsVal(ip) * Scale))
     ELSE IF Head(rest) = "." /\ DigitPrefix(Tail(rest)) = Tail(rest)
               /\ (ip # <<>> \/ Tail(rest) # <<>>)
          THEN Num(DigitsVal(ip) * Scale + FracVal(Tail(rest)))
          ELSE NaN

\* Number(s) of a string: blank is 0, a decimal literal its value, else NaN.
StrToNum(s) ==
  LET t == Trim(s) IN
  IF t = <<>> THEN Num(0)
  ELSE IF Head(t) = "-"
       THEN (LET u == UnsignedVal(Tail(t)) IN IF IsNum(u) THEN Num(-u.n) ELSE NaN)
       ELSE IF Head(t) = "+" THEN UnsignedVal(Tail(t)) ELSE UnsignedVal(t)

\* Number(v), also unary plus.
ToNumber(v) ==
  CASE v.k = "undefined" -> NaN
    [] v.k = "null" -> Num(0)
    [] v.k = "NaN" -> NaN
    [] v.k = "number" -> v
    [] v.k = "string" -> StrToNum(v.s)

\* String(v)
JsString(v) ==
  CASE v.k = "undefined" -> <<"u", "n", "d", "e", "f", "i", "n", "e", "d">>
    [] v.k = "null" -> <<"n", "u", "l", "l">>
    [] v.k = "NaN" -> <<"N", "a", "N">>
    [] v.k = "number" -> NumToStr(v.n)
    [] v.k = "string" -> v.s

\* parseInt(s, 10): leading blanks, a sign, then the leading digits.
ParseInt(s) ==
  LET t == TrimLeft(s)
      neg == t # <<>> /\ Head(t) = "-"
      u == IF t # <<>> /\ Head(t) \in {"-", "+"} THEN Tail(t) ELSE t
      d == DigitPrefix(u)
  IN IF d = <<>> THEN NaN
     ELSE Num((IF neg THEN -1 ELSE 1) * DigitsVal(d) * Scale)

\* Truthiness, v || d and v ?? d.
Truthy(v) == (IsStr(v) /\ v.s # <<>>) \/ (IsNum(v) /\ v.n # 0)
OrElse(v, d) == IF Truthy(v) THEN v ELSE d
Coalesce2(v, d) == IF IsNullish(v) THEN d ELSE v

\* Math.trunc of n thousandths.
Trunc(n) == IF n >= 0 THEN (n \div Scale) * Scale ELSE -(((-n) \div Scale) * Scale)
Max(a, b) == IF a >= b THEN a ELSE b
Min(a, b) == IF a <= b THEN a ELSE b

\* /^\d{4}-\d{2}$/.test(s)
IsYearMonth(s) ==
  /\ Len(s) = 7
  /\ \A i \in {1, 2, 3, 4, 6, 7} : s[i] \in Digits
  /\ s[5] = "-"


(***************************************************************************)
(* SQL helpers.  A table is a set of rows; a column holds Str, Num or      *)
(* Null.                                                                   *)
(***************************************************************************)
\* COALESCE(a, b) and NULLIF(a, b)
SqlCoalesce(a, b) == IF a = Null THEN b ELSE a
SqlNullIf(a, b) == IF a = b THEN Null ELSE a
Empty == Str(<<>>)

\* SUM(col) over a set of rows: NULL when there is no row.
RECURSIVE SumOf(_, _)
SumOf(rows, col) ==
  IF rows = {} THEN 0
  ELSE LET r == CHOOSE x \in rows : TRUE
       IN (IF IsNum(r[col]) THEN r[col].n ELSE 0) + SumOf(rows \ {r}, col)
SqlSum(rows, col) == IF rows = {} THEN Null ELSE Num(SumOf(rows, col))

\* The value PostgreSQL stores in an INTEGER column for parameter v, or
\* SqlError (22P02) when the text of v is not an integer.
SqlError == [k |-> "error", s |-> <<>>, n |-> 0]
IntColumn(v) ==
  CASE IsNullish(v) -> Null
    [] IsNum(v) -> IF v.n % Scale = 0 THEN v ELSE SqlError
    [] IsStr(v) -> (LET u == Trim(v.s)
                        d == IF u # <<>> /\ Head(u) \in {"-", "+"} THEN Tail(u) ELSE u
                    IN IF d # <<>> /\ DigitPrefix(d) = d THEN ParseInt(u) ELSE SqlError)
    [] OTHER -> SqlError

\* The value PostgreSQL stores in a TEXT column for parameter v.
TextColumn(v) == IF IsNullish(v) THEN Null ELSE Str(JsString(v))

\* The value PostgreSQL stores in a NUMERIC(10,2) column for the number n:
\* rounded to two decimals, halves away from zero.
Numeric2Column(v) ==
  IF v.n >= 0 THEN Num(((v.n + 5) \div 10) * 10) ELSE Num(-(((-v.n + 5) \div 10) * 10))

\* The value stored in a NUMERIC(10,2) column for parameter v, or SqlError
\* when the text of v is not a number.
Numeric2Param(v) ==
  CASE IsNullish(v) -> Null
    [] IsNum(v) -> Numeric2Column(v)
    [] IsStr(v) -> (IF Trim(v.s) # <<>> /\ IsNum(StrToNum(v.s))
                    THEN Numeric2Column(StrToNum(v.s)) ELSE SqlError)
    [] OTHER -> SqlError

(***************************************************************************)
(* Requests.                                                               *)
(***************************************************************************)
\* The Authorization header: absent, or "Bearer <jwt>" where the jwt is a
\* signed unexpired token of some role, or a token that does not verify.
NoAuth == [scheme |-> "none", sig |-> "none", role |-> "none"]
AdminAuth == [scheme |-> "Bearer", sig |-> "valid", role |-> "admin"]
UserAuth == [scheme |-> "Bearer", sig |-> "valid", role |-> "user"]
BadAuth == [scheme |-> "Bearer", sig |-> "invalid", role |-> "admin"]
AuthHeaders == {NoAuth, AdminAuth, UserAuth, BadAuth}

NoReq == [op |-> "none"]
NoResp == [status |-> 0]

\* Strings the clients send.
sAna == <<"A", "n", "a">>
sBia == <<"B", "i", "a">>
sBlank == <<" ">>
sOk == <<"o", "k">>
sEscolaA == <<"E", "s", "c", "A">>
sEscolaB == <<"E", "s", "c", "B">>
sMat10 == <<"1", "0">>
sMat11 == <<"1", "1">>
sFev == <<"2", "0", "2", "6", "-", "0", "2">>
sMar == <<"2", "0", "2", "6", "-", "0", "3">>
sAbc == <<"a", "b", "c">>
s13 == <<"2", "0", "2", "6", "-", "1", "3">>
sShort == <<"2", "0", "2", "6", "-", "2">>

Matriculas == {Str(sMat10), Str(sMat11)}
Periodos == {Str(sFev), Str(sMar)}
Escolas == {Str(sEscolaA), Str(sEscolaB)}

(***************************************************************************)
(* process.env: env.ADMIN_PASSWORD and env.JWT_SECRET are the values the   *)
(* process was started with, Undef when the variable is not set.  A        *)
(* program whose login route is not modelled runs with both set.           *)
(***************************************************************************)
sSenha == <<"p", "w">>
sErrada == <<"n", "o">>
sKey == <<"k">>
Configured == [ADMIN_PASSWORD |-> Str(sSenha), JWT_SECRET |-> Str(sKey)]
Environments == [ADMIN_PASSWORD : {Undef, Str(sSenha)}, JWT_SECRET : {Undef, Str(sKey)}]

\* Bodies of POST /api/login: the field that carries the password is absent,
\* empty, wrong or right.
Senhas == {Undef, Empty, Str(sErrada), Str(sSenha)}

JwtThrows == [scheme |-> "throws", sig |-> "none", role |-> "none"]
\* jwt.sign(payload, secret): throws when the secret has no value.
JwtSign(role, secret) ==
  IF ~Truthy(secret) THEN JwtThrows
  ELSE [scheme |-> "Bearer", sig |-> "valid", role |-> role]


(***************************************************************************)
(* S2: src/server.js lines 267-758, tables funcionarios and registros.     *)
(*   emp: funcionarios rows [matricula, nome, funcao, vinculo, carga]      *)
(*   rec: registros rows [id, escola, periodo, matricula, nome, horas,     *)
(*        falta_atestado, falta_sem_atestado, obs]                         *)
(***************************************************************************)
S2_normalizePeriodo(p) ==
  IF ~Truthy(p) THEN Null
  ELSE LET s == Trim(JsString(p)) IN IF IsYearMonth(s) THEN Str(s) ELSE Null

\* A toInt that keeps the fraction of a finite number.
S2_toInt_Fraction(n, def) ==
  LET v == ToNumber(n) IN IF ~IsNum(v) THEN def ELSE v

S2_toInt(n, def) ==
  LET v == ToNumber(n) IN IF ~IsNum(v) THEN def ELSE Num(Trunc(v.n))

\* 0 when the request passes the middleware, else the status it answers.
S2_requireAdmin(auth) ==
  LET token == IF auth.scheme = "Bearer" THEN auth.sig ELSE "" IN
  IF token = "" THEN 401
  ELSE IF auth.sig = "valid" THEN 0 ELSE 401

\* INSERT INTO funcionarios (matricula, nome) ... ON CONFLICT (matricula) DO UPDATE
S2_UpsertFuncionario(t, matricula, nome) ==
  IF \E f \in t : f.matricula = matricula
  THEN {IF f.matricula = matricula
        THEN [f EXCEPT !.nome = SqlCoalesce(SqlNullIf(nome, Empty), f.nome)]
        ELSE f : f \in t}
  ELSE t \cup {[matricula |-> matricula, nome |-> nome, funcao |-> Empty,
                vinculo |-> Empty, carga |-> Empty]}

\* INSERT INTO registros ... ON CONFLICT (periodo, escola, matricula) DO UPDATE
S2_UpsertRegistro(t, id, escola, periodo, matricula, nome, horas, fa, fs, obs) ==
  IF \E r \in t : r.periodo = periodo /\ r.escola = escola /\ r.matricula = matricula
  THEN {IF r.periodo = periodo /\ r.escola = escola /\ r.matricula = matricula
        THEN [r EXCEPT !.nome = nome, !.horas = horas, !.falta_atestado = fa,
                       !.falta_sem_atestado = fs, !.obs = obs]
        ELSE r : r \in t}
  ELSE t \cup {[id |-> id, escola |-> escola, periodo |-> periodo,
                matricula |-> matricula, nome |-> nome, horas |-> horas,
                falta_atestado |-> fa, falta_sem_atestado |-> fs, obs |-> obs]}

\* The body of the loop over itens, for one item, on db = [emp, rec, nextId].
S2_EnviarItem(db, escola, periodo, it) ==
  LET matricula == Str(Trim(JsString(OrElse(it.matricula, Empty)))) IN
  IF matricula = Empty THEN db
  ELSE LET nome == Str(JsString(OrElse(it.nome, Empty)))
           horas == Num(Max(0, S2_toInt(it.horas, Num(0)).n))
           fa == Num(Min(15 * Scale, Max(0, S2_toInt(it.falta_atestado, Num(0)).n)))
           fs == Num(Min(15 * Scale, Max(0, S2_toInt(it.falta_sem_atestado, Num(0)).n)))
           obs == Str(JsString(OrElse(it.obs, Empty)))
       IN [emp |-> S2_UpsertFuncionario(db.emp, matricula, nome),
           rec |-> S2_UpsertRegistro(db.rec, db.nextId, escola, periodo, matricula,
                                     nome, horas, fa, fs, obs),
           nextId |-> db.nextId + 1]

RECURSIVE S2_EnviarItens(_, _, _, _)
S2_EnviarItens(db, escola, periodo, itens) ==
  IF itens = <<>> THEN db
  ELSE S2_EnviarItens(S2_EnviarItem(db, escola, periodo, Head(itens)),
                      escola, periodo, Tail(itens))

\* Item bodies the folha page sends.
S2_Itens ==
  { [matricula |-> Str(sMat10), nome |-> Str(sAna), horas |-> Whole(2),
     falta_atestado |-> Whole(1), falta_sem_atestado |-> Undef, obs |-> Str(sOk)],
    [matricula |-> Str(sMat10), nome |-> Str(sBlank), horas |-> Str(sAbc),
     falta_atestado |-> Undef, falta_sem_atestado |-> Num(1500),
     obs |-> Str(sBlank)],
    [matricula |-> Str(sMat11), nome |-> Str(sBia), horas |-> Num(3500),
     falta_atestado |-> Whole(20), falta_sem_atestado |-> Whole(-1),
     obs |-> Undef],
    [matricula |-> Str(sBlank), nome |-> Str(sBia), horas |-> Whole(1),
     falta_atestado |-> Undef, falta_sem_atestado |-> Undef, obs |-> Undef] }
S2_Batches ==
  {<<i>> : i \in S2_Itens}
    \cup {<<i, j>> : i \in {x \in S2_Itens : x.nome = Str(sAna)},
                     j \in {x \in S2_Itens : x.nome = Str(sBia)}}

\* Periods the folha page sends: two that match the pattern, one that does not.
S2_EnviarPeriodos == {Str(sFev), Str(s13), Str(sShort)}

\* The statements a batch runs before the first of item k; k = 0 is the
\* whole batch.
S2_Before(itens, k) == IF k = 0 THEN itens ELSE SubSeq(itens, 1, k - 1)

\* A ROLLBACK that leaves the writes of the transaction in place.
S2_Rollback_Kept(db0, db) == db

\* ROLLBACK: the tables are as before BEGIN; the values the id sequence
\* handed out are not given back.
S2_Rollback(db0, db) == [db0 EXCEPT !.nextId = db.nextId]

\* POST /api/folha/enviar
S2_FolhaEnviar ==
  /\ variant = "S2" /\ req = NoReq
  /\ \E escolaIn \in Escolas, periodoIn \in S2_EnviarPeriodos, itens \in S2_Batches :
     \* fails = k: a statement of item k throws; fails = 0: none does.
     \E fails \in {0} \cup {k \in 1..Len(itens) :
                               Trim(JsString(OrElse(itens[k].matricula, Empty))) # <<>>} :
       LET escola == Str(Trim(JsString(OrElse(escolaIn, Empty))))
           periodo == S2_normalizePeriodo(periodoIn)
           db0 == [emp |-> emp, rec |-> rec, nextId |-> nextId]
           ran == S2_EnviarItens(db0, escola, periodo, S2_Before(itens, fails))
           db1 == IF fails = 0 THEN ran ELSE S2_Rollback(db0, ran)
           bad == escola = Empty \/ periodo = Null \/ itens = <<>>
       IN /\ (~bad => ran.nextId <= MaxId + 1)
          /\ (bad => fails = 0)
          /\ req' = [op |-> "S2.enviar", escola |-> escolaIn, periodo |-> periodoIn,
                     itens |-> itens, fails |-> fails]
          /\ IF bad
             THEN /\ resp' = [status |-> 400]
                  /\ UNCHANGED <<emp, rec, nextId>>
             ELSE /\ resp' = [status |-> IF fails = 0 THEN 200 ELSE 500]
                  /\ emp' = db1.emp /\ rec' = db1.rec /\ nextId' = db1.nextId
  /\ UNCHANGED <<variant, env>>

\* The roster query with the join turned into an inner join on the month's rows.
S2_AdminMesRows_InnerJoin(periodo) ==
  LET sel == {r \in rec : r.periodo = periodo} IN
  {[matricula |-> f.matricula, nome |-> f.nome,
    horas |-> SqlSum({r \in sel : r.matricula = f.matricula}, "horas"),
    falta_atestado |-> SqlSum({r \in sel : r.matricula = f.matricula}, "falta_atestado"),
    falta_sem_atestado |->
      SqlSum({r \in sel : r.matricula = f.matricula}, "falta_sem_atestado"),
    escolas |-> {r.escola : r \in {x \in sel : x.matricula = f.matricula}},
    obs |-> {Str(Trim(r.obs.s)) : r \in {x \in sel : x.matricula = f.matricula}}
              \ {Empty}]
   : f \in {e \in emp : \E r \in sel : r.matricula = e.matricula}}

\* GET /api/admin/mes: the rows of the query for $1 = periodo.
S2_AdminMesRows(periodo) ==
  LET sel == {r \in rec : r.periodo = periodo}
      agg == {[matricula |-> m,
               horas |-> SqlSum({r \in sel : r.matricula = m}, "horas"),
               falta_atestado |-> SqlSum({r \in sel : r.matricula = m}, "falta_atestado"),
               falta_sem_atestado |->
                 SqlSum({r \in sel : r.matricula = m}, "falta_sem_atestado"),
               escolas |-> {r.escola : r \in {x \in sel : x.matricula = m}},
               obs |-> {Str(Trim(r.obs.s)) : r \in {x \in sel : x.matricula = m}}
                         \ {Empty}]
              : m \in {r.matricula : r \in sel}}
      Joined(f) ==
        IF \E a \in agg : a.matricula = f.matricula
        THEN {[matricula |-> f.matricula, nome |-> f.nome,
               horas |-> SqlCoalesce(a.horas, Num(0)),
               falta_atestado |-> SqlCoalesce(a.falta_atestado, Num(0)),
               falta_sem_atestado |-> SqlCoalesce(a.falta_sem_atestado, Num(0)),
               escolas |-> a.escolas, obs |-> a.obs]
              : a \in {x \in agg : x.matricula = f.matricula}}
        ELSE {[matricula |-> f.matricula, nome |-> f.nome,
               horas |-> Num(0), falta_atestado |-> Num(0),
               falta_sem_atestado |-> Num(0), escolas |-> {}, obs |-> {}]}
  IN UNION {Joined(f) : f \in emp}

S2_AdminMes ==
  /\ variant = "S2" /\ req = NoReq
  /\ \E auth \in {NoAuth, AdminAuth}, periodoIn \in Periodos :
       LET periodo == S2_normalizePeriodo(periodoIn) IN
       /\ req' = [op |-> "S2.admin.mes", auth |-> auth, periodo |-> periodoIn]
       /\ resp' = IF periodo = Null THEN [status |-> 400]
                  ELSE [status |-> 200, rows |-> S2_AdminMesRows(periodo)]
  /\ UNCHANGED <<variant, env, emp, rec, nextId>>

\* GET /api/admin/balanco
S2_AdminBalancoRow(periodo) ==
  LET sel == {r \in rec : r.periodo = periodo} IN
  [registros |-> Cardinality(sel),
   horas |-> SqlCoalesce(SqlSum(sel, "horas"), Num(0)),
   falta_atestado |-> SqlCoalesce(SqlSum(sel, "falta_atestado"), Num(0)),
   falta_sem_atestado |-> SqlCoalesce(SqlSum(sel, "falta_sem_atestado"), Num(0))]

S2_AdminBalanco ==
  /\ variant = "S2" /\ req = NoReq
  /\ \E auth \in {NoAuth, AdminAuth}, periodoIn \in Periodos :
       LET periodo == S2_normalizePeriodo(periodoIn) IN
       /\ req' = [op |-> "S2.admin.balanco", auth |-> auth, periodo |-> periodoIn]
       /\ resp' = IF periodo = Null THEN [status |-> 400]
                  ELSE [status |-> 200, rows |-> {S2_AdminBalancoRow(periodo)}]
  /\ UNCHANGED <<variant, env, emp, rec, nextId>>

\* GET /api/admin/registros
S2_AdminRegistros ==
  /\ variant = "S2" /\ req = NoReq
  /\ \E auth \in {NoAuth, AdminAuth}, periodoIn \in Periodos,
        escolaIn \in {Undef, Str(sEscolaA)} :
       LET periodo == S2_normalizePeriodo(periodoIn)
           escola == Str(Trim(JsString(OrElse(escolaIn, Empty))))
       IN
       /\ req' = [op |-> "S2.admin.registros", auth |-> auth, periodo |-> periodoIn,
                  escola |-> escolaIn]
       /\ resp' = IF periodo = Null THEN [status |-> 400]
                  ELSE [status |-> 200,
                        rows |-> {r \in rec : /\ r.periodo = periodo
                                              /\ (escola # Empty => r.escola = escola)}]
  /\ UNCHANGED <<variant, env, emp, rec, nextId>>

\* UPDATE registros SET ... WHERE id=$7: the table after the statement.
S2_UpdateRegistro(t, id, escola, periodo, horas, fa, fs, obs) ==
  {IF r.id = id
   THEN [r EXCEPT !.escola = escola, !.periodo = periodo, !.horas = horas,
                  !.falta_atestado = fa, !.falta_sem_atestado = fs, !.obs = obs]
   ELSE r : r \in t}

\* A registros table declared without the UNIQUE constraint.
S2_UniqueViolation_Dropped(t) == FALSE

\* UNIQUE(periodo, escola, matricula): does table t break the constraint (23505)?
S2_UniqueViolation(t) ==
  \E a \in t, b \in t :
    /\ a.id # b.id /\ a.periodo = b.periodo /\ a.escola = b.escola
    /\ a.matricula = b.matricula

S2_PutBodies ==
  { [horas |-> Whole(4), falta_atestado |-> Undef, falta_sem_atestado |-> Whole(2),
     obs |-> Undef],
    [horas |-> Str(<<"4", ".", "5">>), falta_atestado |-> Str(<<"-", "3">>),
     falta_sem_atestado |-> Str(<<"2", ".", "5">>), obs |-> Undef] }

\* PUT /api/registros/:id
S2_PutRegistro ==
  /\ variant = "S2" /\ req = NoReq
  /\ \E auth \in AuthHeaders, id \in 1..MaxId, escolaIn \in Escolas,
        periodoIn \in Periodos, b \in S2_PutBodies :
       LET gate == S2_requireAdmin(auth)
           escola == Str(Trim(JsString(OrElse(escolaIn, Empty))))
           periodo == S2_normalizePeriodo(periodoIn)
           horas == Num(Max(0, S2_toInt(b.horas, Num(0)).n))
           fa == Num(Min(15 * Scale, Max(0, S2_toInt(b.falta_atestado, Num(0)).n)))
           fs == Num(Min(15 * Scale, Max(0, S2_toInt(b.falta_sem_atestado, Num(0)).n)))
           obs == Str(JsString(OrElse(b.obs, Empty)))
           new == S2_UpdateRegistro(rec, id, escola, periodo, horas, fa, fs, obs)
           status == IF gate # 0 THEN gate
                     ELSE IF periodo = Null \/ escola = Empty THEN 400
                     ELSE IF S2_UniqueViolation(new) THEN 500
                     ELSE IF ~\E r \in rec : r.id = id THEN 404
                     ELSE 200
       IN /\ req' = [op |-> "S2.put", auth |-> auth, id |-> id, escola |-> escolaIn,
                     periodo |-> periodoIn, body |-> b]
          /\ resp' = [status |-> status]
          /\ rec' = IF status = 200 THEN new ELSE rec
  /\ UNCHANGED <<variant, env, emp, nextId>>

\* DELETE /api/registros/:id
S2_DeleteRegistro ==
  /\ variant = "S2" /\ req = NoReq
  /\ \E auth \in AuthHeaders, id \in 1..MaxId :
       LET gate == S2_requireAdmin(auth)
           status == IF gate # 0 THEN gate
                     ELSE IF ~\E r \in rec : r.id = id THEN 404 ELSE 200
       IN /\ req' = [op |-> "S2.delete", auth |-> auth, id |-> id]
          /\ resp' = [status |-> status]
          /\ rec' = IF status = 200 THEN {r \in rec : r.id # id} ELSE rec
  /\ UNCHANGED <<variant, env, emp, nextId>>

(***************************************************************************)
(* The response is delivered and the connection closes.                    *)
(***************************************************************************)
Ack ==
  /\ req # NoReq /\ "pa" \notin DOMAIN req
  /\ req' = NoReq /\ resp' = NoResp
  /\ UNCHANGED <<variant, env, emp, rec, nextId>>

\* The same for two requests that were in flight together, pa and pb being
\* the number of statements each has run.
Pair_Answered ==
  /\ "pa" \in DOMAIN req /\ req.pa = 2 /\ req.pb = 2
  /\ req' = NoReq /\ resp' = NoResp
  /\ UNCHANGED <<variant, env, emp, rec, nextId>>

InitS2 ==
  /\ variant = "S2" /\ env = Configured /\ emp = {} /\ rec = {} /\ nextId = 1
  /\ req = NoReq /\ resp = NoResp

NextS2 ==
  \/ S2_FolhaEnviar
  \/ S2_AdminMes
  \/ S2_AdminBalanco
  \/ S2_AdminRegistros
  \/ S2_PutRegistro
  \/ S2_DeleteRegistro
  \/ Ack

SpecS2 == InitS2 /\ [][NextS2]_vars

(***************************************************************************)
(* server.js lines 1-265: one table registros, written by plain INSERTs.   *)
(* rec holds its rows; the columns funcao, vinculo and carga are left out. *)
(***************************************************************************)
S1_nInt(v) == LET x == ToNumber(v) IN IF IsNum(x) THEN Num(Trunc(x.n)) ELSE Num(0)

\* The row POST /api/reports inserts for record r of a body with source escola.
S1_ReportRow(id, escola, r) ==
  [id |-> id, escola |-> Str(escola),
   matricula |-> Str(JsString(Coalesce2(r.matricula, Empty))),
   nome |-> Str(JsString(Coalesce2(r.nome, Empty))),
   periodo |-> Str(JsString(Coalesce2(r.period, Coalesce2(r.periodo, Empty)))),
   horas |-> S1_nInt(Coalesce2(r.horas_extras, Coalesce2(r.horas, Num(0)))),
   falta_atestado |-> S1_nInt(Coalesce2(r.falta_atestado, Coalesce2(r.faltaA, Num(0)))),
   falta_sem_atestado |->
     S1_nInt(Coalesce2(r.falta_sem_atestado, Coalesce2(r.faltaS, Num(0)))),
   obs |-> Str(JsString(Coalesce2(r.obs, Empty)))]

\* The row POST /api/enviar inserts for record r.
S1_EnviarRow(id, r) ==
  [id |-> id, escola |-> Str(<<"(", "s", "e", "m", " ", "e", "s", "c", "o", "l", "a", ")">>),
   matricula |-> Str(JsString(Coalesce2(r.matricula, Empty))),
   nome |-> Str(JsString(Coalesce2(r.nome, Empty))),
   periodo |-> Str(JsString(Coalesce2(r.periodo, Empty))),
   horas |-> S1_nInt(Coalesce2(r.horas, Num(0))),
   falta_atestado |-> S1_nInt(Coalesce2(r.faltaA, Num(0))),
   falta_sem_atestado |-> S1_nInt(Coalesce2(r.faltaS, Num(0))),
   obs |-> Str(JsString(Coalesce2(r.obs, Empty)))]

\* for (const r of records) await pool.query(ins, [...]): the rows inserted,
\* ids counted from id.
RECURSIVE S1_ReportRows(_, _, _)
S1_ReportRows(id, escola, records) ==
  IF records = <<>> THEN {}
  ELSE {S1_ReportRow(id, escola, Head(records))}
       \cup S1_ReportRows(id + 1, escola, Tail(records))

RECURSIVE S1_EnviarRows(_, _)
S1_EnviarRows(id, dados) ==
  IF dados = <<>> THEN {}
  ELSE {S1_EnviarRow(id, Head(dados))} \cup S1_EnviarRows(id + 1, Tail(dados))

S1_Records ==
  { [matricula |-> Str(sMat10), nome |-> Str(sAna), period |-> Undef,
     periodo |-> Str(sFev), horas_extras |-> Undef, horas |-> Whole(2),
     falta_atestado |-> Undef, faltaA |-> Whole(1), falta_sem_atestado |-> Undef,
     faltaS |-> Undef, obs |-> Str(sOk)],
    [matricula |-> Whole(10), nome |-> Str(sAna), period |-> Str(sFev),
     periodo |-> Undef, horas_extras |-> Num(3500), horas |-> Undef,
     falta_atestado |-> Str(sAbc), faltaA |-> Undef, falta_sem_atestado |-> Whole(2),
     faltaS |-> Undef, obs |-> Undef],
    [matricula |-> Str(sMat11), nome |-> Str(sBia), period |-> Undef,
     periodo |-> Str(sMar), horas_extras |-> Undef, horas |-> Undef,
     falta_atestado |-> Undef, faltaA |-> Undef, falta_sem_atestado |-> Undef,
     faltaS |-> Undef, obs |-> Undef] }

\* POST /api/reports
S1_Reports ==
  /\ variant = "S1" /\ req = NoReq
  /\ \E source \in {Undef, Str(sEscolaA)}, r \in S1_Records :
       LET records == <<r>>
           bad == ~Truthy(source)
           escola == Trim(JsString(source))
       IN /\ (~bad => nextId + Len(records) <= MaxId + 1)
          /\ req' = [op |-> "S1.reports", source |-> source, records |-> records]
          /\ resp' = [status |-> IF bad THEN 400 ELSE 200]
          /\ rec' = IF bad THEN rec
                    ELSE rec \cup S1_ReportRows(nextId, escola, records)
          /\ nextId' = IF bad THEN nextId ELSE nextId + Len(records)
  /\ UNCHANGED <<variant, env, emp>>

\* POST /api/enviar
S1_Enviar ==
  /\ variant = "S1" /\ req = NoReq
  /\ \E r \in S1_Records :
       LET dados == <<r>> IN
       /\ nextId + Len(dados) <= MaxId + 1
       /\ req' = [op |-> "S1.enviar", dados |-> dados]
       /\ resp' = [status |-> 200]
       /\ rec' = rec \cup S1_EnviarRows(nextId, dados)
       /\ nextId' = nextId + Len(dados)
  /\ UNCHANGED <<variant, env, emp>>

\* GET /api/registros
S1_Registros ==
  /\ variant = "S1" /\ req = NoReq
  /\ \E periodoIn \in {Undef, Str(sFev)}, escolaIn \in {Undef, Str(sEscolaA)} :
       LET periodo == IF Truthy(periodoIn) THEN Str(JsString(periodoIn)) ELSE Null
           escola == IF Truthy(escolaIn) THEN Str(JsString(escolaIn)) ELSE Null
       IN /\ req' = [op |-> "S1.registros", periodo |-> periodoIn, escola |-> escolaIn]
          /\ resp' = [status |-> 200,
                      rows |-> {r \in rec : /\ (periodo # Null => r.periodo = periodo)
                                            /\ (escola # Null => r.escola = escola)}]
  /\ UNCHANGED <<variant, env, emp, rec, nextId>>

\* POST /api/login
S1_Login ==
  /\ variant = "S1" /\ req = NoReq
  /\ \E senha \in Senhas :
       /\ req' = [op |-> "S1.login", senha |-> senha]
       /\ resp' = [status |-> IF senha = env.ADMIN_PASSWORD THEN 200 ELSE 401,
                   token |-> NoAuth]
  /\ UNCHANGED <<variant, env, emp, rec, nextId>>

InitS1 ==
  /\ variant = "S1" /\ env \in {e \in Environments : e.JWT_SECRET = Str(sKey)}
  /\ emp = {} /\ rec = {} /\ nextId = 1
  /\ req = NoReq /\ resp = NoResp
NextS1 ==
  \/ S1_Login
  \/ S1_Reports
  \/ S1_Enviar
  \/ S1_Registros
  \/ Ack
SpecS1 == InitS1 /\ [][NextS1]_vars

(***************************************************************************)
(* part_003: funcionarios and folhas, no authentication anywhere.  emp     *)
(* holds funcionarios (matricula, nome, escola), rec holds folhas.         *)
(***************************************************************************)
P3_FuncionarioBodies ==
  { [matricula |-> Str(sMat10), nome |-> Str(sAna), escola |-> Str(sEscolaA)],
    [matricula |-> Str(sMat11), nome |-> Undef, escola |-> Undef] }

P3_FolhaBodies ==
  { [matricula |-> Str(sMat10), nome |-> Str(sAna), mes |-> Str(<<"0", "2">>),
     ano |-> Whole(2026), faltas |-> Whole(1), extras |-> Whole(2), obs |-> Str(sOk)],
    [matricula |-> Str(sMat10), nome |-> Str(sAna), mes |-> Str(<<"0", "2">>),
     ano |-> Str(<<"2", "0", "2", "6">>), faltas |-> Str(sAbc), extras |-> Undef,
     obs |-> Undef],
    [matricula |-> Str(sMat11), nome |-> Undef, mes |-> Str(<<"0", "3">>),
     ano |-> Str(<<"2", "0", "2", "6">>), faltas |-> Undef, extras |-> Num(3500),
     obs |-> Undef],
    [matricula |-> Str(sMat11), nome |-> Str(sBia), mes |-> Str(<<"0", "3">>),
     ano |-> Str(<<"2", "0", "2", "6">>), faltas |-> Str(<<"2">>), extras |-> Undef,
     obs |-> Str(sBlank)] }

P3_EditBodies ==
  { [faltas |-> Whole(3), extras |-> Undef, obs |-> Undef],
    [faltas |-> Num(1500), extras |-> Whole(1), obs |-> Str(sOk)] }

\* GET /api/admin/funcionarios
P3_ListFuncionarios ==
  /\ variant = "P3" /\ req = NoReq
  /\ \E auth \in {NoAuth, AdminAuth} :
       /\ req' = [op |-> "P3.admin.funcionarios.list", auth |-> auth]
       /\ resp' = [status |-> 200, rows |-> emp]
  /\ UNCHANGED <<variant, env, emp, rec, nextId>>

\* POST /api/admin/funcionarios
P3_CreateFuncionario ==
  /\ variant = "P3" /\ req = NoReq
  /\ \E auth \in {NoAuth, AdminAuth}, b \in P3_FuncionarioBodies :
       LET row == [matricula |-> TextColumn(b.matricula), nome |-> TextColumn(b.nome),
                   escola |-> TextColumn(b.escola)]
           failed == row.matricula = Null
           conflict == \E f \in emp : f.matricula = row.matricula
       IN /\ req' = [op |-> "P3.admin.funcionarios.create", auth |-> auth, body |-> b]
          /\ resp' = [status |-> IF failed THEN 500 ELSE 200]
          /\ emp' = IF failed \/ conflict THEN emp ELSE emp \cup {row}
  /\ UNCHANGED <<variant, env, rec, nextId>>

\* POST /api/folha
P3_Folha ==
  /\ variant = "P3" /\ req = NoReq
  /\ \E b \in P3_FolhaBodies :
       LET row == [id |-> nextId, matricula |-> TextColumn(b.matricula),
                   nome |-> TextColumn(b.nome), mes |-> TextColumn(b.mes),
                   ano |-> TextColumn(b.ano), faltas |-> IntColumn(b.faltas),
                   extras |-> IntColumn(b.extras), obs |-> TextColumn(b.obs)]
           failed == row.faltas = SqlError \/ row.extras = SqlError
       IN /\ (~failed => nextId <= MaxId)
          /\ req' = [op |-> "P3.folha", body |-> b]
          /\ resp' = [status |-> IF failed THEN 500 ELSE 200]
          /\ rec' = IF failed THEN rec ELSE rec \cup {row}
          /\ nextId' = IF failed THEN nextId ELSE nextId + 1
  /\ UNCHANGED <<variant, env, emp>>

\* GET /api/admin/folhas
P3_ListFolhas ==
  /\ variant = "P3" /\ req = NoReq
  /\ \E auth \in {NoAuth, AdminAuth} :
       /\ req' = [op |-> "P3.admin.folhas.list", auth |-> auth]
       /\ resp' = [status |-> 200, rows |-> rec]
  /\ UNCHANGED <<variant, env, emp, rec, nextId>>

\* PUT /api/admin/folha/:id
P3_EditFolha ==
  /\ variant = "P3" /\ req = NoReq
  /\ \E auth \in {NoAuth, AdminAuth}, id \in 1..MaxId, b \in P3_EditBodies :
       LET faltas == IntColumn(b.faltas)
           extras == IntColumn(b.extras)
           failed == faltas = SqlError \/ extras = SqlError
       IN /\ req' = [op |-> "P3.admin.folha.edit", auth |-> auth, id |-> id, body |-> b]
          /\ resp' = [status |-> IF failed THEN 500 ELSE 200]
          /\ rec' = IF failed THEN rec
                    ELSE {IF r.id = id
                          THEN [r EXCEPT !.faltas = faltas, !.extras = extras,
                                         !.obs = TextColumn(b.obs)]
                          ELSE r : r \in rec}
  /\ UNCHANGED <<variant, env, emp, nextId>>

InitP3 ==
  /\ variant = "P3" /\ env = Configured /\ emp = {} /\ rec = {} /\ nextId = 1
  /\ req = NoReq /\ resp = NoResp
NextP3 ==
  \/ P3_ListFuncionarios
  \/ P3_CreateFuncionario
  \/ P3_Folha
  \/ P3_ListFolhas
  \/ P3_EditFolha
  \/ Ack
SpecP3 == InitP3 /\ [][NextP3]_vars

(***************************************************************************)
(* server.js lines 760-1170: funcionarios and folhas, one folha per        *)
(* (periodo, matricula).  emp holds funcionarios, rec holds folhas.        *)
(***************************************************************************)
RequireAdminRole(auth) ==
  LET token == IF auth.scheme = "Bearer" THEN auth.sig ELSE "" IN
  IF token = "" THEN 401
  ELSE IF auth.sig # "valid" THEN 401
  ELSE IF auth.role # "admin" THEN 403 ELSE 0

\* Number.isFinite(+v) ? +v : d
FiniteOr(v, d) == IF IsNum(ToNumber(v)) THEN ToNumber(v) ELSE d

\* insert into funcionarios ... on conflict (matricula) do update set
\* x = coalesce(excluded.x, funcionarios.x)
S3_UpsertFuncionario(t, matricula, nome, funcao, vinculo, carga, escola) ==
  IF \E f \in t : f.matricula = matricula
  THEN {IF f.matricula = matricula
        THEN [matricula |-> matricula,
              nome |-> SqlCoalesce(nome, f.nome),
              funcao |-> SqlCoalesce(funcao, f.funcao),
              vinculo |-> SqlCoalesce(vinculo, f.vinculo),
              carga |-> SqlCoalesce(carga, f.carga),
              escola |-> SqlCoalesce(escola, f.escola)]
        ELSE f : f \in t}
  ELSE t \cup {[matricula |-> matricula, nome |-> nome, funcao |-> funcao,
                vinculo |-> vinculo, carga |-> carga, escola |-> escola]}

\* A folhas upsert that adds the submitted counters to the stored ones.
UpsertFolha_Accumulate(t, id, periodo, matricula, faltas, fca, horas, observacoes) ==
  IF \E r \in t : r.periodo = periodo /\ r.matricula = matricula
  THEN {IF r.periodo = periodo /\ r.matricula = matricula
        THEN [r EXCEPT !.faltas = Num(r.faltas.n + faltas.n),
                       !.falta_com_atestado = Num(r.falta_com_atestado.n + fca.n),
                       !.falta_sem_atestado = Num(r.falta_sem_atestado.n + fca.n),
                       !.horas_extras = Num(r.horas_extras.n + horas.n),
                       !.observacoes = observacoes]
        ELSE r : r \in t}
  ELSE t \cup {[id |-> id, periodo |-> periodo, matricula |-> matricula,
                faltas |-> faltas, falta_com_atestado |-> fca,
                falta_sem_atestado |-> fca, horas_extras |-> horas,
                observacoes |-> observacoes]}

\* insert into folhas ... on conflict (periodo, matricula) do update set
\* every column = excluded.column
UpsertFolha(t, id, periodo, matricula, faltas, fca, horas, observacoes) ==
  IF \E r \in t : r.periodo = periodo /\ r.matricula = matricula
  THEN {IF r.periodo = periodo /\ r.matricula = matricula
        THEN [r EXCEPT !.faltas = faltas, !.falta_com_atestado = fca,
                       !.falta_sem_atestado = fca, !.horas_extras = horas,
                       !.observacoes = observacoes]
        ELSE r : r \in t}
  ELSE t \cup {[id |-> id, periodo |-> periodo, matricula |-> matricula,
                faltas |-> faltas, falta_com_atestado |-> fca,
                falta_sem_atestado |-> fca, horas_extras |-> horas,
                observacoes |-> observacoes]}

sProf == <<"P", "r", "o", "f">>

FolhaBodies ==
  { [periodo |-> Str(sFev), matricula |-> Str(sMat10), nome |-> Str(sAna),
     funcao |-> Str(sProf), vinculo |-> Undef, carga |-> Null,
     escola |-> Str(sEscolaA), faltas |-> Whole(2), falta_com_atestado |-> Whole(1),
     falta_sem_atestado |-> Undef, horas_extras |-> Whole(5),
     observacoes |-> Str(sOk)],
    [periodo |-> Str(sFev), matricula |-> Str(sMat10), nome |-> Empty,
     funcao |-> Undef, vinculo |-> Empty, carga |-> Undef, escola |-> Empty,
     faltas |-> Undef, falta_com_atestado |-> Undef,
     falta_sem_atestado |-> Str(<<"1">>), horas_extras |-> Whole(2),
     observacoes |-> Undef],
    [periodo |-> Str(sMar), matricula |-> Str(sMat11), nome |-> Str(sBia),
     funcao |-> Undef, vinculo |-> Undef, carga |-> Undef, escola |-> Str(sEscolaB),
     faltas |-> Str(sAbc), falta_com_atestado |-> Whole(-1),
     falta_sem_atestado |-> Undef, horas_extras |-> Empty, observacoes |-> Empty],
    [periodo |-> Str(sMar), matricula |-> Str(sMat11), nome |-> Str(sBia),
     funcao |-> Undef, vinculo |-> Undef, carga |-> Undef, escola |-> Undef,
     faltas |-> Whole(1), falta_com_atestado |-> Undef,
     falta_sem_atestado |-> Undef, horas_extras |-> Num(3500), observacoes |-> Undef],
    [periodo |-> Undef, matricula |-> Str(sMat10), nome |-> Str(sBia),
     funcao |-> Undef, vinculo |-> Undef, carga |-> Undef, escola |-> Undef,
     faltas |-> Whole(1), falta_com_atestado |-> Undef,
     falta_sem_atestado |-> Undef, horas_extras |-> Undef, observacoes |-> Undef],
    [periodo |-> Str(sFev), matricula |-> Str(sMat10), nome |-> Str(sAna),
     funcao |-> Undef, vinculo |-> Undef, carga |-> Undef, escola |-> Str(sEscolaB),
     faltas |-> Whole(4), falta_com_atestado |-> Undef,
     falta_sem_atestado |-> Undef, horas_extras |-> Whole(1), observacoes |-> Undef] }

\* POST /api/folha/enviar
S3_FolhaEnviar ==
  /\ variant = "S3" /\ req = NoReq
  /\ \E body \in FolhaBodies :
       LET periodo == Trim(JsString(OrElse(body.periodo, Empty)))
           matricula == Trim(JsString(OrElse(body.matricula, Empty)))
           faltas == FiniteOr(body.faltas, Num(0))
           fca == FiniteOr(body.falta_com_atestado,
                              FiniteOr(body.falta_sem_atestado, Num(0)))
           horas == FiniteOr(body.horas_extras, Num(0))
           bad == periodo = <<>> \/ ~IsYearMonth(periodo) \/ matricula = <<>>
           emp1 == S3_UpsertFuncionario(emp, Str(matricula),
                     TextColumn(body.nome), TextColumn(body.funcao),
                     TextColumn(body.vinculo), TextColumn(body.carga),
                     TextColumn(body.escola))
           failed == SqlError \in {IntColumn(faltas), IntColumn(fca), IntColumn(horas)}
           rec1 == UpsertFolha(rec, nextId, Str(periodo), Str(matricula),
                     IntColumn(faltas), IntColumn(fca), IntColumn(horas),
                     TextColumn(body.observacoes))
       IN /\ (~bad /\ ~failed => nextId <= MaxId)
          /\ req' = [op |-> "S3.enviar", body |-> body]
          /\ resp' = [status |-> IF bad THEN 400 ELSE IF failed THEN 500 ELSE 200]
          /\ emp' = IF bad THEN emp ELSE emp1
          /\ rec' = IF bad \/ failed THEN rec ELSE rec1
          /\ nextId' = IF bad \/ failed THEN nextId ELSE nextId + 1
  /\ UNCHANGED <<variant, env>>

\* GET /api/admin/mes: the rows of the left join for $1 = periodo.
S3_AdminMesRows(periodo) ==
  UNION {
    IF \E fl \in rec : fl.matricula = f.matricula /\ fl.periodo = periodo
    THEN {[matricula |-> f.matricula, nome |-> f.nome, escola |-> f.escola,
           periodo |-> fl.periodo, faltas |-> fl.faltas,
           falta_com_atestado |->
             SqlCoalesce(fl.falta_com_atestado,
                         SqlCoalesce(fl.falta_sem_atestado, Num(0))),
           horas_extras |-> fl.horas_extras, observacoes |-> fl.observacoes]
          : fl \in {x \in rec : x.matricula = f.matricula /\ x.periodo = periodo}}
    ELSE {[matricula |-> f.matricula, nome |-> f.nome, escola |-> f.escola,
           periodo |-> Null, faltas |-> Null, falta_com_atestado |-> Num(0),
           horas_extras |-> Null, observacoes |-> Null]}
    : f \in emp}

S3_AdminMes ==
  /\ variant = "S3" /\ req = NoReq
  /\ \E auth \in AuthHeaders, periodoIn \in Periodos :
       LET gate == RequireAdminRole(auth)
           periodo == Trim(JsString(OrElse(periodoIn, Empty)))
       IN /\ req' = [op |-> "S3.admin.mes", auth |-> auth, periodo |-> periodoIn]
          /\ resp' = IF gate # 0 THEN [status |-> gate]
                     ELSE IF periodo = <<>> \/ ~IsYearMonth(periodo)
                          THEN [status |-> 400]
                          ELSE [status |-> 200, rows |-> S3_AdminMesRows(Str(periodo))]
  /\ UNCHANGED <<variant, env, emp, rec, nextId>>

InitS3 ==
  /\ variant = "S3" /\ env = Configured /\ emp = {} /\ rec = {} /\ nextId = 1
  /\ req = NoReq /\ resp = NoResp
NextS3 ==
  \/ S3_FolhaEnviar
  \/ S3_AdminMes
  \/ Ack
SpecS3 == InitS3 /\ [][NextS3]_vars

(***************************************************************************)
(* part_001: employees and folha_envios, one envio per                     *)
(* (periodo, escola, matricula).  emp holds employees, rec folha_envios.   *)
(***************************************************************************)
P1_requireAdmin(auth) ==
  LET token == IF auth.scheme = "none" THEN "" ELSE auth.sig IN
  IF token = "" THEN 401
  ELSE IF auth.sig # "valid" THEN 401
  ELSE IF auth.role # "admin" THEN 403 ELSE 0

\* normalizePeriodo: (p || "").trim() throws on a truthy non-string.
P1_normalizePeriodo(p) ==
  IF Truthy(p) /\ ~IsStr(p) THEN SqlError
  ELSE LET periodo == Trim(OrElse(p, Empty).s)
       IN IF IsYearMonth(periodo) THEN Str(periodo) ELSE Null

P1_asText(v) == IF IsNullish(v) THEN Empty ELSE Str(Trim(JsString(v)))

P1_asInt(v, def) ==
  LET n == ParseInt(JsString(Coalesce2(v, Empty))) IN IF IsNum(n) THEN n ELSE def

\* String.prototype.replace(",", "."): the first comma becomes a point.
RECURSIVE ReplaceComma(_)
ReplaceComma(s) ==
  IF s = <<>> THEN <<>>
  ELSE IF Head(s) = "," THEN <<".">> \o Tail(s)
  ELSE <<Head(s)>> \o ReplaceComma(Tail(s))

P1_asNum(v, def) ==
  LET n == StrToNum(ReplaceComma(JsString(Coalesce2(v, Empty))))
  IN IF IsNum(n) THEN n ELSE def

\* INSERT INTO employees ... ON CONFLICT (matricula) DO UPDATE SET x = EXCLUDED.x
P1_UpsertEmployee(t, matricula, nome, funcao, vinculo, carga) ==
  {f \in t : f.matricula # matricula}
    \cup {[matricula |-> matricula, nome |-> nome, funcao |-> funcao,
           vinculo |-> vinculo, carga |-> carga]}

\* INSERT INTO folha_envios ... ON CONFLICT (periodo, escola, matricula) DO UPDATE
P1_UpsertEnvio(t, id, row) ==
  IF \E r \in t : /\ r.periodo = row.periodo /\ r.escola = row.escola
                  /\ r.matricula = row.matricula
  THEN {IF /\ r.periodo = row.periodo /\ r.escola = row.escola
           /\ r.matricula = row.matricula
        THEN [row EXCEPT !.id = r.id] ELSE r : r \in t}
  ELSE t \cup {[row EXCEPT !.id = id]}

s35 == <<"3", ",", "5">>

P1_Bodies ==
  { [periodo |-> Str(sFev), escola |-> Str(sEscolaA), matricula |-> Str(sMat10),
     nome |-> Str(sAna), funcao |-> Str(sProf), vinculo |-> Undef, carga |-> Null,
     faltas |-> Whole(2), horas_extras |-> Str(s35), observacao |-> Str(sOk)],
    [periodo |-> Str(sFev), escola |-> Str(sEscolaA), matricula |-> Whole(10),
     nome |-> Empty, funcao |-> Undef, vinculo |-> Undef, carga |-> Undef,
     faltas |-> Undef, horas_extras |-> Undef, observacao |-> Undef],
    [periodo |-> Str(sMar), escola |-> Str(sEscolaB), matricula |-> Str(sMat11),
     nome |-> Str(sBia), funcao |-> Undef, vinculo |-> Undef, carga |-> Undef,
     faltas |-> Whole(-1), horas_extras |-> Num(1255), observacao |-> Str(sBlank)],
    [periodo |-> Str(<<"2", "0", "2", "6", "-", "2">>), escola |-> Str(sEscolaA),
     matricula |-> Str(sMat11), nome |-> Str(sBia), funcao |-> Undef,
     vinculo |-> Undef, carga |-> Undef, faltas |-> Whole(1),
     horas_extras |-> Whole(1), observacao |-> Undef] }

\* POST /api/folha/enviar
P1_FolhaEnviar ==
  /\ variant = "P1" /\ req = NoReq
  \* fault: the second dbQuery throws (the storage refuses the statement).
  /\ \E body \in P1_Bodies, fault \in BOOLEAN :
       LET periodo == P1_normalizePeriodo(body.periodo)
           matricula == P1_asText(body.matricula)
           valid == periodo \notin {SqlError, Null} /\ matricula # Empty
           status == IF periodo = SqlError THEN 500
                     ELSE IF periodo = Null \/ matricula = Empty THEN 400
                     ELSE IF fault THEN 500 ELSE 200
           emp1 == P1_UpsertEmployee(emp, matricula, P1_asText(body.nome),
                     P1_asText(body.funcao), P1_asText(body.vinculo),
                     P1_asText(body.carga))
           row == [id |-> 0, periodo |-> periodo, escola |-> P1_asText(body.escola),
                   matricula |-> matricula, nome |-> P1_asText(body.nome),
                   funcao |-> P1_asText(body.funcao),
                   vinculo |-> P1_asText(body.vinculo),
                   carga |-> P1_asText(body.carga),
                   faltas |-> IntColumn(P1_asInt(body.faltas, Num(0))),
                   horas_extras |-> Numeric2Column(P1_asNum(body.horas_extras, Num(0))),
                   observacao |-> P1_asText(body.observacao)]
       IN /\ (status = 200 => nextId <= MaxId)
          /\ (fault => valid)
          /\ req' = [op |-> "P1.enviar", body |-> body, fault |-> fault]
          /\ resp' = [status |-> status]
          /\ emp' = IF valid THEN emp1 ELSE emp
          /\ rec' = IF status = 200 THEN P1_UpsertEnvio(rec, nextId, row) ELSE rec
          /\ nextId' = IF status = 200 THEN nextId + 1 ELSE nextId
  /\ UNCHANGED <<variant, env>>

P1_Where_AnyPeriod(t, periodo, escola) ==
  {r \in t : escola # Empty => r.escola = escola}

\* WHERE periodo = $1 [AND escola = $2] of the two queries of GET /api/admin/mes
P1_Where(t, periodo, escola) ==
  {r \in t : r.periodo = periodo /\ (escola # Empty => r.escola = escola)}

\* GET /api/admin/mes
P1_AdminMes ==
  /\ variant = "P1" /\ req = NoReq
  /\ \E auth \in AuthHeaders, periodoIn \in Periodos,
        escolaIn \in {Undef, Str(sEscolaA)} :
       LET gate == P1_requireAdmin(auth)
           periodo == P1_normalizePeriodo(periodoIn)
           escola == P1_asText(escolaIn)
           rows == P1_Where(rec, periodo, escola)
       IN /\ req' = [op |-> "P1.admin.mes", auth |-> auth, periodo |-> periodoIn,
                     escola |-> escolaIn]
          /\ resp' = IF gate # 0 THEN [status |-> gate]
                     ELSE IF periodo = SqlError THEN [status |-> 500]
                     ELSE IF periodo = Null THEN [status |-> 400]
                     ELSE [status |-> 200,
                           kpis |-> [total_registros |-> Cardinality(rows),
                                     horas_extras_soma |->
                                       SqlCoalesce(SqlSum(rows, "horas_extras"), Num(0)),
                                     faltas_soma |->
                                       SqlCoalesce(SqlSum(rows, "faltas"), Num(0))],
                           rows |-> rows]
  /\ UNCHANGED <<variant, env, emp, rec, nextId>>

P1_PutBodies ==
  { [faltas |-> Whole(3), horas_extras |-> Undef, observacao |-> Undef],
    [faltas |-> Undef, horas_extras |-> Str(s35), observacao |-> Str(sOk)] }

\* PUT /api/admin/registro/:id
P1_PutRegistro ==
  /\ variant = "P1" /\ req = NoReq
  /\ \E auth \in AuthHeaders, id \in 1..MaxId, body \in P1_PutBodies :
       LET gate == P1_requireAdmin(auth)
           faltas == IntColumn(P1_asInt(body.faltas, Num(0)))
           horas_extras == Numeric2Column(P1_asNum(body.horas_extras, Num(0)))
           observacao == P1_asText(body.observacao)
           status == IF gate # 0 THEN gate
                     ELSE IF ~\E r \in rec : r.id = id THEN 404 ELSE 200
       IN /\ req' = [op |-> "P1.put", auth |-> auth, id |-> id, body |-> body]
          /\ resp' = [status |-> status]
          /\ rec' = IF status # 200 THEN rec
                    ELSE {IF r.id = id
                          THEN [r EXCEPT !.faltas = faltas,
                                         !.horas_extras = horas_extras,
                                         !.observacao = observacao]
                          ELSE r : r \in rec}
  /\ UNCHANGED <<variant, env, emp, nextId>>

\* DELETE /api/admin/registro/:id
P1_DeleteRegistro ==
  /\ variant = "P1" /\ req = NoReq
  /\ \E auth \in AuthHeaders, id \in 1..MaxId :
       LET gate == P1_requireAdmin(auth)
           status == IF gate # 0 THEN gate
                     ELSE IF ~\E r \in rec : r.id = id THEN 404 ELSE 200
       IN /\ req' = [op |-> "P1.delete", auth |-> auth, id |-> id]
          /\ resp' = [status |-> status]
          /\ rec' = IF status = 200 THEN {r \in rec : r.id # id} ELSE rec
  /\ UNCHANGED <<variant, env, emp, nextId>>

\* POST /api/login, with ADMIN_PASSWORD and JWT_SECRET as lines 20-21 read them.
sTroque == <<"T", "R", "O", "Q", "U", "E">>
P1_Login ==
  /\ variant = "P1" /\ req = NoReq
  /\ \E senha \in Senhas :
       LET ADMIN_PASSWORD == Trim(OrElse(env.ADMIN_PASSWORD, Empty).s)
           JWT_SECRET == Trim(OrElse(env.JWT_SECRET, Str(sTroque)).s)
           password == Trim(OrElse(senha, Empty).s)
           token == JwtSign("admin", Str(JWT_SECRET))
           status == IF ADMIN_PASSWORD = <<>> THEN 500
                     ELSE IF password = <<>> THEN 400
                     ELSE IF password # ADMIN_PASSWORD THEN 401
                     ELSE IF token = JwtThrows THEN 500 ELSE 200
       IN /\ req' = [op |-> "P1.login", senha |-> senha]
          /\ resp' = [status |-> status,
                      token |-> IF status = 200 THEN token ELSE NoAuth]
  /\ UNCHANGED <<variant, env, emp, rec, nextId>>

InitP1 ==
  /\ variant = "P1" /\ env \in Environments /\ emp = {} /\ rec = {} /\ nextId = 1
  /\ req = NoReq /\ resp = NoResp
NextP1 ==
  \/ P1_Login
  \/ P1_FolhaEnviar
  \/ P1_AdminMes
  \/ P1_PutRegistro
  \/ P1_DeleteRegistro
  \/ Ack
SpecP1 == InitP1 /\ [][NextP1]_vars

(***************************************************************************)
(* part_005 lines 1-259: funcionarios and folhas as in server.js 760-1170, *)
(* but a submission never changes an existing funcionarios row.            *)
(***************************************************************************)
\* An upsert whose conflict branch takes the submitted columns.
P5a_InsertFuncionario_Overwrite(t, matricula, nome, funcao, vinculo, carga, escola) ==
  {f \in t : f.matricula # matricula}
    \cup {[matricula |-> matricula, nome |-> nome, funcao |-> funcao,
           vinculo |-> vinculo, carga |-> carga, escola |-> escola]}

\* insert into funcionarios ... on conflict(matricula) do update set
\* atualizado_em = now()
P5a_InsertFuncionario(t, matricula, nome, funcao, vinculo, carga, escola) ==
  IF \E f \in t : f.matricula = matricula THEN t
  ELSE t \cup {[matricula |-> matricula, nome |-> nome, funcao |-> funcao,
                vinculo |-> vinculo, carga |-> carga, escola |-> escola]}

\* POST /api/folha/enviar
P5a_FolhaEnviar ==
  /\ variant = "P5a" /\ req = NoReq
  /\ \E b \in FolhaBodies :
       LET periodo == Trim(JsString(OrElse(b.periodo, Empty)))
           matricula == Trim(JsString(OrElse(b.matricula, Empty)))
           faltas == FiniteOr(b.faltas, Num(0))
           faltaCom == FiniteOr(b.falta_com_atestado,
                                FiniteOr(b.falta_sem_atestado, Num(0)))
           he == FiniteOr(b.horas_extras, Num(0))
           obs == Str(JsString(Coalesce2(b.observacoes, Empty)))
           bad == periodo = <<>> \/ ~IsYearMonth(periodo) \/ matricula = <<>>
           emp1 == P5a_InsertFuncionario(emp, Str(matricula), TextColumn(b.nome),
                     TextColumn(b.funcao), TextColumn(b.vinculo), TextColumn(b.carga),
                     TextColumn(b.escola))
           failed == SqlError \in {IntColumn(faltas), IntColumn(faltaCom), IntColumn(he)}
           rec1 == UpsertFolha(rec, nextId, Str(periodo), Str(matricula),
                     IntColumn(faltas), IntColumn(faltaCom), IntColumn(he), obs)
       IN /\ (~bad /\ ~failed => nextId <= MaxId)
          /\ req' = [op |-> "P5a.enviar", body |-> b]
          /\ resp' = [status |-> IF bad THEN 400 ELSE IF failed THEN 500 ELSE 200]
          /\ emp' = IF bad THEN emp ELSE emp1
          /\ rec' = IF bad \/ failed THEN rec ELSE rec1
          /\ nextId' = IF bad \/ failed THEN nextId ELSE nextId + 1
  /\ UNCHANGED <<variant, env>>

\* GET /api/admin/mes: the rows of the left join for $1 = periodo.
P5a_AdminMesRows(periodo) ==
  UNION {
    IF \E fl \in rec : fl.matricula = f.matricula /\ fl.periodo = periodo
    THEN {[matricula |-> f.matricula, nome |-> f.nome, escola |-> f.escola,
           periodo |-> periodo, faltas |-> SqlCoalesce(fl.faltas, Num(0)),
           falta_com_atestado |->
             SqlCoalesce(fl.falta_com_atestado,
                         SqlCoalesce(fl.falta_sem_atestado, Num(0))),
           horas_extras |-> SqlCoalesce(fl.horas_extras, Num(0)),
           observacoes |-> SqlCoalesce(fl.observacoes, Empty)]
          : fl \in {x \in rec : x.matricula = f.matricula /\ x.periodo = periodo}}
    ELSE {[matricula |-> f.matricula, nome |-> f.nome, escola |-> f.escola,
           periodo |-> periodo, faltas |-> Num(0), falta_com_atestado |-> Num(0),
           horas_extras |-> Num(0), observacoes |-> Empty]}
    : f \in emp}

P5a_AdminMes ==
  /\ variant = "P5a" /\ req = NoReq
  /\ \E auth \in AuthHeaders, periodoIn \in Periodos :
       LET gate == RequireAdminRole(auth)
           periodo == Trim(JsString(OrElse(periodoIn, Empty)))
       IN /\ req' = [op |-> "P5a.admin.mes", auth |-> auth, periodo |-> periodoIn]
          /\ resp' = IF gate # 0 THEN [status |-> gate]
                     ELSE IF periodo = <<>> \/ ~IsYearMonth(periodo)
                          THEN [status |-> 400]
                          ELSE [status |-> 200, rows |-> P5a_AdminMesRows(Str(periodo))]
  /\ UNCHANGED <<variant, env, emp, rec, nextId>>

InitP5a ==
  /\ variant = "P5a" /\ env = Configured /\ emp = {} /\ rec = {} /\ nextId = 1
  /\ req = NoReq /\ resp = NoResp
NextP5a ==
  \/ P5a_FolhaEnviar
  \/ P5a_AdminMes
  \/ Ack
SpecP5a == InitP5a /\ [][NextP5a]_vars

(***************************************************************************)
(* part_006: employees and submissions, one submission per                 *)
(* (periodo, matricula).  emp holds employees, rec holds submissions; the  *)
(* columns dias_trabalhados and payload are left out.                      *)
(***************************************************************************)
\* COALESCE(NULLIF(EXCLUDED.x,''), old.x)
P6_Fill(new, old) == SqlCoalesce(SqlNullIf(new, Empty), old)

\* INSERT INTO employees ... ON CONFLICT (matricula) DO UPDATE SET ...
P6_UpsertEmployee(t, matricula, nome, funcao, vinculo, carga, escola) ==
  IF \E f \in t : f.matricula = matricula
  THEN {IF f.matricula = matricula
        THEN [matricula |-> matricula, nome |-> P6_Fill(nome, f.nome),
              funcao |-> P6_Fill(funcao, f.funcao),
              vinculo |-> P6_Fill(vinculo, f.vinculo),
              carga |-> P6_Fill(carga, f.carga),
              escola |-> P6_Fill(escola, f.escola)]
        ELSE f : f \in t}
  ELSE t \cup {[matricula |-> matricula, nome |-> nome, funcao |-> funcao,
                vinculo |-> vinculo, carga |-> carga, escola |-> escola]}

\* INSERT INTO submissions ... ON CONFLICT (periodo, matricula) DO UPDATE SET ...
P6_UpsertSubmission(t, id, periodo, matricula, escola, faltas, horas, observacoes) ==
  IF \E r \in t : r.periodo = periodo /\ r.matricula = matricula
  THEN {IF r.periodo = periodo /\ r.matricula = matricula
        THEN [r EXCEPT !.escola = P6_Fill(escola, r.escola), !.faltas = faltas,
                       !.horas_extras = horas, !.observacoes = observacoes]
        ELSE r : r \in t}
  ELSE t \cup {[id |-> id, periodo |-> periodo, matricula |-> matricula,
                escola |-> escola, faltas |-> faltas, horas_extras |-> horas,
                observacoes |-> observacoes]}

\* $1::date of `${periodoStr}-01`: the month must be 01..12 and the year not 0000.
P6_IsDate(periodoStr) ==
  /\ DigitsVal(SubSeq(periodoStr, 6, 7)) \in 1..12
  /\ DigitsVal(SubSeq(periodoStr, 1, 4)) # 0

P6_Bodies ==
  { [periodo |-> Str(sFev), escola |-> Str(sEscolaA), matricula |-> Str(sMat10),
     nome |-> Str(sAna), funcao |-> Str(sProf), vinculo |-> Undef, carga |-> Null,
     faltas |-> Whole(2), horas_extras |-> Num(4500), observacoes |-> Str(sOk)],
    [periodo |-> Str(sFev), escola |-> Str(sBlank), matricula |-> Str(sMat10),
     nome |-> Str(sBlank), funcao |-> Undef, vinculo |-> Empty, carga |-> Undef,
     faltas |-> Undef, horas_extras |-> Undef, observacoes |-> Undef],
    [periodo |-> Str(sFev), escola |-> Str(sEscolaB), matricula |-> Str(sMat10),
     nome |-> Str(sBia), funcao |-> Undef, vinculo |-> Undef, carga |-> Undef,
     faltas |-> Str(<<"3">>), horas_extras |-> Str(<<"1", ".", "2", "5", "5">>),
     observacoes |-> Empty],
    [periodo |-> Str(sMar), escola |-> Str(sEscolaB), matricula |-> Str(sMat11),
     nome |-> Str(sBia), funcao |-> Undef, vinculo |-> Undef, carga |-> Undef,
     faltas |-> Str(sAbc), horas_extras |-> Whole(1), observacoes |-> Undef],
    [periodo |-> Str(s13), escola |-> Str(sEscolaB), matricula |-> Str(sMat11),
     nome |-> Str(sBia), funcao |-> Undef, vinculo |-> Undef, carga |-> Undef,
     faltas |-> Whole(1), horas_extras |-> Whole(1), observacoes |-> Undef] }

\* POST /api/folha/enviar
P6_FolhaEnviar ==
  /\ variant = "P6" /\ req = NoReq
  /\ \E body \in P6_Bodies :
       LET matricula == Trim(JsString(OrElse(body.matricula, Empty)))
           periodoStr == Trim(JsString(OrElse(body.periodo, Empty)))
           escola == Trim(JsString(OrElse(body.escola, Empty)))
           bad == matricula = <<>> \/ ~IsYearMonth(periodoStr)
           emp1 == P6_UpsertEmployee(emp, Str(matricula),
                     Str(Trim(JsString(OrElse(body.nome, Empty)))),
                     Str(Trim(JsString(OrElse(body.funcao, Empty)))),
                     Str(Trim(JsString(OrElse(body.vinculo, Empty)))),
                     Str(Trim(JsString(OrElse(body.carga, Empty)))), Str(escola))
           faltas == IntColumn(Coalesce2(body.faltas, Null))
           horas == Numeric2Param(Coalesce2(body.horas_extras, Null))
           failed == ~P6_IsDate(periodoStr) \/ SqlError \in {faltas, horas}
           rec1 == P6_UpsertSubmission(rec, nextId, Str(periodoStr), Str(matricula),
                     Str(escola), faltas, horas,
                     TextColumn(Coalesce2(body.observacoes, Null)))
       IN /\ (~bad /\ ~failed => nextId <= MaxId)
          /\ req' = [op |-> "P6.enviar", body |-> body]
          /\ resp' = [status |-> IF bad THEN 400 ELSE IF failed THEN 500 ELSE 200]
          /\ emp' = IF bad THEN emp ELSE emp1
          /\ rec' = IF bad \/ failed THEN rec ELSE rec1
          /\ nextId' = IF bad \/ failed THEN nextId ELSE nextId + 1
  /\ UNCHANGED <<variant, env>>

\* GET /api/admin/mes: the rows of the left join for $1 = periodo, $2 = escola.
P6_AdminMesRows(periodo, escola) ==
  LET joined ==
        UNION {
          IF \E s \in rec : s.matricula = e.matricula /\ s.periodo = periodo
          THEN {[matricula |-> e.matricula, nome |-> e.nome,
                 escola |-> SqlCoalesce(s.escola, SqlCoalesce(e.escola, Empty)),
                 faltas |-> s.faltas, horas_extras |-> s.horas_extras,
                 observacoes |-> s.observacoes]
                : s \in {x \in rec : x.matricula = e.matricula /\ x.periodo = periodo}}
          ELSE {[matricula |-> e.matricula, nome |-> e.nome,
                 escola |-> SqlCoalesce(e.escola, Empty),
                 faltas |-> Null, horas_extras |-> Null, observacoes |-> Null]}
          : e \in emp}
  IN {x \in joined : escola = Empty \/ x.escola = escola}

P6_AdminMes ==
  /\ variant = "P6" /\ req = NoReq
  /\ \E auth \in AuthHeaders, periodoIn \in Periodos,
        escolaIn \in {Undef, Str(sEscolaA)} :
       LET gate == RequireAdminRole(auth)
           periodoStr == Trim(JsString(OrElse(periodoIn, Empty)))
           escola == Str(Trim(JsString(OrElse(escolaIn, Empty))))
           envios == {s \in rec : /\ s.periodo = Str(periodoStr)
                                  /\ (escola = Empty \/ s.escola = escola)}
       IN /\ req' = [op |-> "P6.admin.mes", auth |-> auth, periodo |-> periodoIn,
                     escola |-> escolaIn]
          /\ resp' = IF gate # 0 THEN [status |-> gate]
                     ELSE IF ~IsYearMonth(periodoStr) THEN [status |-> 400]
                     ELSE IF ~P6_IsDate(periodoStr) THEN [status |-> 500]
                     ELSE [status |-> 200,
                           kpis |-> [total_envios |-> Cardinality(envios),
                                     horas_extras_soma |-> Num(SumOf(envios, "horas_extras"))],
                           rows |-> P6_AdminMesRows(Str(periodoStr), escola)]
  /\ UNCHANGED <<variant, env, emp, rec, nextId>>

\* DELETE /api/admin/registro?periodo&matricula
P6_DeleteRegistro ==
  /\ variant = "P6" /\ req = NoReq
  /\ \E auth \in AuthHeaders, periodoIn \in Periodos \cup {Str(s13)},
        matriculaIn \in Matriculas \cup {Undef} :
       LET gate == RequireAdminRole(auth)
           periodoStr == Trim(JsString(OrElse(periodoIn, Empty)))
           matricula == Trim(JsString(OrElse(matriculaIn, Empty)))
           status == IF gate # 0 THEN gate
                     ELSE IF matricula = <<>> \/ ~IsYearMonth(periodoStr) THEN 400
                     ELSE IF ~P6_IsDate(periodoStr) THEN 500 ELSE 200
       IN /\ req' = [op |-> "P6.delete", auth |-> auth, periodo |-> periodoIn,
                     matricula |-> matriculaIn]
          /\ resp' = [status |-> status]
          /\ rec' = IF status # 200 THEN rec
                    ELSE {s \in rec : ~(/\ s.periodo = Str(periodoStr)
                                        /\ s.matricula = Str(matricula))}
  /\ UNCHANGED <<variant, env, emp, nextId>>

\* PUT /api/admin/registro: the INSERT ... ON CONFLICT (periodo, matricula)
\* DO UPDATE of lines 303-325; submissions.matricula REFERENCES employees.
P6_PutRegistro ==
  /\ variant = "P6" /\ req = NoReq
  /\ \E auth \in AuthHeaders,
        body \in { [periodo |-> Str(sFev), matricula |-> Str(sMat10), escola |-> Undef,
                    faltas |-> Whole(3), horas_extras |-> Undef, observacoes |-> Undef],
                   [periodo |-> Str(sMar), matricula |-> Undef, escola |-> Undef,
                    faltas |-> Whole(1), horas_extras |-> Whole(1),
                    observacoes |-> Str(sOk)] } :
       LET gate == RequireAdminRole(auth)
           periodoStr == Trim(JsString(OrElse(body.periodo, Empty)))
           m == Trim(JsString(OrElse(body.matricula, Empty)))
           escola == Str(Trim(JsString(OrElse(body.escola, Empty))))
           faltas == IntColumn(Coalesce2(body.faltas, Null))
           horas == Numeric2Param(Coalesce2(body.horas_extras, Null))
           bad == m = <<>> \/ ~IsYearMonth(periodoStr)
           failed == \/ ~P6_IsDate(periodoStr) \/ SqlError \in {faltas, horas}
                     \/ ~\E e \in emp : e.matricula = Str(m)
           written == gate = 0 /\ ~bad /\ ~failed
       IN /\ (written => nextId <= MaxId)
          /\ req' = [op |-> "P6.put", auth |-> auth, body |-> body]
          /\ resp' = [status |-> IF gate # 0 THEN gate ELSE IF bad THEN 400
                                 ELSE IF failed THEN 500 ELSE 200]
          /\ rec' = IF written
                    THEN P6_UpsertSubmission(rec, nextId, Str(periodoStr), Str(m), escola,
                           faltas, horas, TextColumn(Coalesce2(body.observacoes, Null)))
                    ELSE rec
          /\ nextId' = IF written THEN nextId + 1 ELSE nextId
  /\ UNCHANGED <<variant, env, emp>>

InitP6 ==
  /\ variant = "P6" /\ env = Configured /\ emp = {} /\ rec = {} /\ nextId = 1
  /\ req = NoReq /\ resp = NoResp
NextP6 ==
  \/ P6_FolhaEnviar
  \/ P6_AdminMes
  \/ P6_DeleteRegistro
  \/ P6_PutRegistro
  \/ Ack
SpecP6 == InitP6 /\ [][NextP6]_vars

(***************************************************************************)
(* part_002 lines 1-294: funcionarios and folhas keyed by                  *)
(* (matricula, ano, mes).  The handlers are modelled as written, over the  *)
(* tables the CREATE TABLE statements describe.                            *)
(***************************************************************************)
P2a_toInt(v, fallback) ==
  LET n == ParseInt(JsString(Coalesce2(v, Empty))) IN IF IsNum(n) THEN n ELSE fallback

\* new Date().getFullYear()
P2a_ThisYear == Whole(2026)

P2a_normMes(m) ==
  LET n == P2a_toInt(m, Num(0)) IN IF n.n < 1 * Scale \/ n.n > 12 * Scale THEN Null ELSE n

P2a_Bodies ==
  { [matricula |-> Str(sMat10), ano |-> Whole(2026), mes |-> Whole(2),
     faltas |-> Whole(1), horas_extras |-> Num(5500), obs |-> Str(sOk)],
    [matricula |-> Str(sMat11), ano |-> Undef, mes |-> Str(<<"0", "3">>),
     faltas |-> Undef, horas_extras |-> Undef, obs |-> Undef],
    [matricula |-> Whole(10), ano |-> Str(<<"2", "0", "2", "6">>),
     mes |-> Str(<<"0", "2">>), faltas |-> Str(sAbc), horas_extras |-> Whole(1),
     obs |-> Undef],
    [matricula |-> Str(sMat11), ano |-> Whole(2026), mes |-> Whole(13),
     faltas |-> Whole(1), horas_extras |-> Whole(1), obs |-> Undef] }

\* POST /api/folha/upsert
P2a_FolhaUpsert ==
  /\ variant = "P2a" /\ req = NoReq
  /\ \E b \in P2a_Bodies :
       LET A == P2a_toInt(b.ano, P2a_ThisYear)
           M == P2a_normMes(b.mes)
           matricula == Str(JsString(b.matricula))
           bad == ~Truthy(b.matricula) \/ M = Null
           emp1 == IF \E f \in emp : f.matricula = matricula THEN emp
                   ELSE emp \cup {[matricula |-> matricula, nome |-> Empty,
                                   funcao |-> Empty, vinculo |-> Empty,
                                   carga |-> Empty,
                                   escola |-> Str(<<"S", "E", "M", "E", "C">>)]}
           faltas == IntColumn(Coalesce2(b.faltas, Num(0)))
           horas == Numeric2Param(Coalesce2(b.horas_extras, Num(0)))
           obs == TextColumn(Coalesce2(b.obs, Empty))
           failed == SqlError \in {faltas, horas}
           hit == {r \in rec : r.matricula = matricula /\ r.ano = A /\ r.mes = M}
           rec1 == IF hit = {}
                   THEN rec \cup {[id |-> nextId, matricula |-> matricula, ano |-> A,
                                   mes |-> M, faltas |-> faltas, horas_extras |-> horas,
                                   obs |-> obs]}
                   ELSE {IF r \in hit
                         THEN [r EXCEPT !.faltas = SqlCoalesce(faltas, r.faltas),
                                        !.horas_extras = SqlCoalesce(horas, r.horas_extras),
                                        !.obs = SqlCoalesce(obs, r.obs)]
                         ELSE r : r \in rec}
       IN /\ (~bad /\ ~failed => nextId <= MaxId)
          /\ req' = [op |-> "P2a.upsert", body |-> b]
          /\ resp' = [status |-> IF bad THEN 400 ELSE IF failed THEN 500 ELSE 200]
          /\ emp' = IF bad THEN emp ELSE emp1
          /\ rec' = IF bad \/ failed THEN rec ELSE rec1
          /\ nextId' = IF bad \/ failed THEN nextId ELSE nextId + 1
  /\ UNCHANGED <<variant, env>>

\* GET /api/admin/folhas
P2a_AdminFolhas ==
  /\ variant = "P2a" /\ req = NoReq
  /\ \E auth \in AuthHeaders, anoIn \in {Undef, Str(<<"2", "0", "2", "6">>)},
        mesIn \in {Str(<<"2">>), Str(<<"0", "3">>)} :
       LET gate == RequireAdminRole(auth)
           ano == P2a_toInt(anoIn, P2a_ThisYear)
           mes == P2a_normMes(mesIn)
       IN /\ req' = [op |-> "P2a.admin.folhas", auth |-> auth, ano |-> anoIn,
                     mes |-> mesIn]
          /\ resp' = IF gate # 0 THEN [status |-> gate]
                     ELSE IF mes = Null THEN [status |-> 400]
                     ELSE [status |-> 200,
                           rows |-> {[id |-> f.id, matricula |-> f.matricula,
                                      nome |-> fu.nome, escola |-> fu.escola,
                                      ano |-> f.ano, mes |-> f.mes, faltas |-> f.faltas,
                                      horas_extras |-> f.horas_extras, obs |-> f.obs]
                                     : <<f, fu>> \in
                                         {x \in rec \X emp :
                                            /\ x[2].matricula = x[1].matricula
                                            /\ x[1].ano = ano /\ x[1].mes = mes}}]
  /\ UNCHANGED <<variant, env, emp, rec, nextId>>

\* PUT /api/admin/folhas/:matricula: INSERT ... ON CONFLICT DO NOTHING, then the
\* UPDATE, as two queries; folhas.matricula REFERENCES funcionarios.
P2a_PutFolha ==
  /\ variant = "P2a" /\ req = NoReq
  /\ \E auth \in AuthHeaders, matricula \in {Str(sMat10), Str(sMat11)},
        b \in { [ano |-> Undef, mes |-> Whole(2), faltas |-> Whole(3),
                 horas_extras |-> Undef, obs |-> Undef],
                [ano |-> Whole(2026), mes |-> Whole(13), faltas |-> Whole(1),
                 horas_extras |-> Whole(1), obs |-> Str(sOk)] } :
       LET gate == RequireAdminRole(auth)
           ano == P2a_toInt(b.ano, P2a_ThisYear)
           mes == P2a_normMes(b.mes)
           known == \E f \in emp : f.matricula = matricula
           faltas == IntColumn(Coalesce2(b.faltas, Null))
           horas == Numeric2Param(Coalesce2(b.horas_extras, Null))
           obs == TextColumn(Coalesce2(b.obs, Null))
           hit(t) == {r \in t : r.matricula = matricula /\ r.ano = ano /\ r.mes = mes}
           rec1 == IF hit(rec) # {} THEN rec
                   ELSE rec \cup {[id |-> nextId, matricula |-> matricula, ano |-> ano,
                                   mes |-> mes, faltas |-> Num(0),
                                   horas_extras |-> Num(0), obs |-> Empty]}
           rec2 == {IF r \in hit(rec1)
                    THEN [r EXCEPT !.faltas = SqlCoalesce(faltas, r.faltas),
                                   !.horas_extras = SqlCoalesce(horas, r.horas_extras),
                                   !.obs = SqlCoalesce(obs, r.obs)]
                    ELSE r : r \in rec1}
           run == gate = 0 /\ mes # Null
       IN /\ (run /\ known => nextId <= MaxId)
          /\ req' = [op |-> "P2a.put", auth |-> auth, matricula |-> matricula, body |-> b]
          /\ resp' = [status |-> IF gate # 0 THEN gate ELSE IF mes = Null THEN 400
                                 ELSE IF ~known \/ SqlError \in {faltas, horas} THEN 500
                                 ELSE 200]
          /\ rec' = IF ~run \/ ~known THEN rec
                    ELSE IF SqlError \in {faltas, horas} THEN rec1 ELSE rec2
          /\ nextId' = IF run /\ known THEN nextId + 1 ELSE nextId
  /\ UNCHANGED <<variant, env, emp>>

InitP2a ==
  /\ variant = "P2a" /\ env = Configured /\ emp = {} /\ rec = {} /\ nextId = 1
  /\ req = NoReq /\ resp = NoResp
NextP2a ==
  \/ P2a_FolhaUpsert
  \/ P2a_AdminFolhas
  \/ P2a_PutFolha
  \/ Ack
SpecP2a == InitP2a /\ [][NextP2a]_vars

(***************************************************************************)
(* part_002 lines 296-680, the increment variant.  The source creates no   *)
(* table and no funcionarios row: emp is given at the start, rec holds     *)
(* folhas, with UNIQUE (mes, matricula) as ensureMonthSheets requires.     *)
(* nextId counts the accepted writes, so that the counters stay bounded.   *)
(***************************************************************************)
P2b_normalizeMonth(mes, now) ==
  IF ~Truthy(mes) THEN now
  ELSE IF IsYearMonth(JsString(mes)) THEN mes ELSE Null

P2b_toInt(v, def) ==
  IF IsNullish(v) \/ v = Empty THEN def
  ELSE LET n == ToNumber(v) IN IF ~IsNum(n) THEN def ELSE Num(Trunc(n.n))

P2b_toText(v, def) == IF IsNullish(v) THEN def ELSE Str(JsString(v))

\* An ensureMonthSheets whose INSERT resets the month's rows on a conflict.
P2b_ensureMonthSheets_Reset(t, mes) ==
  {r \in t : r.mes # mes}
    \cup {[mes |-> mes, matricula |-> f.matricula, faltas |-> Num(0),
            faltas_atestado |-> Num(0), horas_extras |-> Num(0), obs |-> Empty]
           : f \in emp}

\* An UPDATE that sets the counters of row (mes, matricula) instead of adding.
P2b_Accumulate_Set(t, mes, matricula, faltas, faltas_atestado, horas_extras) ==
  {IF r.mes = mes /\ r.matricula = matricula
   THEN [r EXCEPT !.faltas = faltas, !.faltas_atestado = faltas_atestado,
                  !.horas_extras = horas_extras]
   ELSE r : r \in t}

\* The folhas table with the counters of row (mes, matricula) increased.
P2b_Accumulate(t, mes, matricula, faltas, faltas_atestado, horas_extras) ==
  {IF r.mes = mes /\ r.matricula = matricula
   THEN [r EXCEPT
           !.faltas = Num(SqlCoalesce(r.faltas, Num(0)).n + faltas.n),
           !.faltas_atestado =
              Num(SqlCoalesce(r.faltas_atestado, Num(0)).n + faltas_atestado.n),
           !.horas_extras = Num(SqlCoalesce(r.horas_extras, Num(0)).n + horas_extras.n)]
   ELSE r : r \in t}

\* INSERT INTO folhas ... SELECT $1, f.matricula, 0, 0, 0, '' FROM funcionarios f
\* ON CONFLICT (mes, matricula) DO NOTHING
P2b_ensureMonthSheets(t, mes) ==
  t \cup {[mes |-> mes, matricula |-> f.matricula, faltas |-> Num(0),
           faltas_atestado |-> Num(0), horas_extras |-> Num(0), obs |-> Empty]
          : f \in {e \in emp : ~\E r \in t : r.mes = mes /\ r.matricula = e.matricula}}

P2b_LancarBodies ==
  { [mes |-> Str(sFev), matricula |-> Str(sMat10), faltas |-> Whole(1),
     faltas_atestado |-> Str(<<"2">>), horas_extras |-> Num(3500), obs |-> Undef],
    [mes |-> Str(sFev), matricula |-> Str(sMat10), faltas |-> Undef,
     faltas_atestado |-> Whole(-1), horas_extras |-> Str(sAbc), obs |-> Str(sOk)],
    [mes |-> Undef, matricula |-> Str(sMat11), faltas |-> Whole(2),
     faltas_atestado |-> Empty, horas_extras |-> Whole(1), obs |-> Null],
    [mes |-> Str(<<"2", "0", "2", "6", "-", "2">>), matricula |-> Str(sMat10),
     faltas |-> Whole(1), faltas_atestado |-> Undef, horas_extras |-> Undef,
     obs |-> Undef] }

\* POST /api/folha/lancar
P2b_Lancar ==
  /\ variant = "P2b" /\ req = NoReq
  /\ \E body \in P2b_LancarBodies, now \in {Str(sMar)} :
       LET mes == P2b_normalizeMonth(body.mes, now)
           matricula == Str(Trim(JsString(OrElse(body.matricula, Empty))))
           bad == mes = Null \/ matricula = Empty
           ensured == P2b_ensureMonthSheets(rec, mes)
           missing == ~\E f \in emp : f.matricula = matricula
           added == P2b_Accumulate(ensured, mes, matricula,
                      P2b_toInt(body.faltas, Num(0)),
                      P2b_toInt(body.faltas_atestado, Num(0)),
                      P2b_toInt(body.horas_extras, Num(0)))
           rec1 == IF body.obs = Undef THEN added
                   ELSE {IF r.mes = mes /\ r.matricula = matricula
                         THEN [r EXCEPT !.obs = P2b_toText(body.obs, Empty)]
                         ELSE r : r \in added}
       IN /\ (~bad /\ ~missing => nextId <= MaxId)
          /\ req' = [op |-> "P2b.lancar", body |-> body, now |-> now]
          /\ resp' = [status |-> IF bad THEN 400 ELSE IF missing THEN 404 ELSE 200]
          /\ rec' = IF bad THEN rec ELSE IF missing THEN ensured ELSE rec1
          /\ nextId' = IF bad \/ missing THEN nextId ELSE nextId + 1
  /\ UNCHANGED <<variant, env, emp>>

\* GET /api/admin/folhas: the rows of the join for $1 = mes over table t.
P2b_AdminFolhasRows(t, mes) ==
  {[matricula |-> x[1].matricula, nome |-> x[1].nome, mes |-> x[2].mes,
    faltas |-> SqlCoalesce(x[2].faltas, Num(0)),
    faltas_atestado |-> SqlCoalesce(x[2].faltas_atestado, Num(0)),
    horas_extras |-> SqlCoalesce(x[2].horas_extras, Num(0)),
    obs |-> SqlCoalesce(x[2].obs, Empty)]
   : x \in {y \in emp \X t : y[2].matricula = y[1].matricula /\ y[2].mes = mes}}

\* auth: any token that verifies passes, whatever its role.
P2b_auth(h) ==
  LET token == IF h.scheme = "Bearer" THEN h.sig ELSE "" IN
  IF token = "" THEN 401 ELSE IF h.sig # "valid" THEN 401 ELSE 0

P2b_AdminFolhas ==
  /\ variant = "P2b" /\ req = NoReq
  /\ \E h \in AuthHeaders, mesIn \in {Undef, Str(sFev)}, now \in {Str(sMar)} :
       LET gate == P2b_auth(h)
           mes == P2b_normalizeMonth(mesIn, now)
           ensured == P2b_ensureMonthSheets(rec, mes)
       IN /\ req' = [op |-> "P2b.admin.folhas", auth |-> h, mes |-> mesIn, now |-> now]
          /\ resp' = IF gate # 0 THEN [status |-> gate]
                     ELSE IF mes = Null THEN [status |-> 400]
                     ELSE [status |-> 200, rows |-> P2b_AdminFolhasRows(ensured, mes)]
          /\ rec' = IF gate # 0 \/ mes = Null THEN rec ELSE ensured
  /\ UNCHANGED <<variant, env, emp, nextId>>

\* Two GET /api/admin/folhas for the same month, with a token that verifies,
\* arrive together.
P2b_FolhasArrive ==
  /\ variant = "P2b" /\ req = NoReq
  /\ \E mesIn \in {Undef, Str(sFev)}, now \in {Str(sMar)} :
       req' = [op |-> "P2b.folhas.pair", mes |-> mesIn, now |-> now,
               pa |-> 0, pb |-> 0, ra |-> {}, rb |-> {}]
  /\ UNCHANGED <<variant, env, emp, rec, nextId, resp>>

\* The database runs the next statement of one of the two: the committed
\* INSERT of ensureMonthSheets, then the SELECT, whose rows the handler answers.
P2b_FolhasRunQuery ==
  /\ req.op = "P2b.folhas.pair"
  /\ \E who \in {"a", "b"} :
       LET k == (IF who = "a" THEN req.pa ELSE req.pb) + 1
           mes == P2b_normalizeMonth(req.mes, req.now)
           rows == IF k = 2 THEN P2b_AdminFolhasRows(rec, mes) ELSE {}
           q == IF who = "a" THEN [req EXCEPT !.pa = k, !.ra = rows]
                ELSE [req EXCEPT !.pb = k, !.rb = rows]
       IN /\ k <= 2
          /\ req' = q
          /\ rec' = IF k = 1 THEN P2b_ensureMonthSheets(rec, mes) ELSE rec
          /\ resp' = IF q.pa = 2 /\ q.pb = 2 THEN [status |-> 200] ELSE resp
  /\ UNCHANGED <<variant, env, emp, nextId>>

P2b_PatchBodies ==
  { [mes |-> Str(sFev), faltas |-> Whole(5), faltas_atestado |-> Undef,
     horas_extras |-> Undef, obs |-> Undef],
    [mes |-> Str(sFev), faltas |-> Undef, faltas_atestado |-> Undef,
     horas_extras |-> Undef, obs |-> Undef],
    [mes |-> Empty, faltas |-> Whole(5), faltas_atestado |-> Undef,
     horas_extras |-> Undef, obs |-> Undef] }

\* PATCH /api/admin/folhas/:matricula
P2b_PatchFolha ==
  /\ variant = "P2b" /\ req = NoReq
  /\ \E h \in AuthHeaders, param \in Matriculas, body \in P2b_PatchBodies,
        now \in {Str(sMar)} :
       LET gate == P2b_auth(h)
           mes == P2b_normalizeMonth(body.mes, now)
           matricula == Str(Trim(JsString(OrElse(param, Empty))))
           ensured == P2b_ensureMonthSheets(rec, mes)
           Set(old, v, new) == IF v = Undef THEN old ELSE new
           nothing == /\ body.faltas = Undef /\ body.faltas_atestado = Undef
                      /\ body.horas_extras = Undef /\ body.obs = Undef
           hit == {r \in ensured : r.mes = mes /\ r.matricula = matricula}
           rec1 == {IF r \in hit
                    THEN [r EXCEPT
                            !.faltas = Set(r.faltas, body.faltas,
                                           P2b_toInt(body.faltas, Num(0))),
                            !.faltas_atestado =
                               Set(r.faltas_atestado, body.faltas_atestado,
                                   P2b_toInt(body.faltas_atestado, Num(0))),
                            !.horas_extras =
                               Set(r.horas_extras, body.horas_extras,
                                   P2b_toInt(body.horas_extras, Num(0))),
                            !.obs = Set(r.obs, body.obs, P2b_toText(body.obs, Empty))]
                    ELSE r : r \in ensured}
           status == IF gate # 0 THEN gate
                     ELSE IF mes = Null \/ matricula = Empty THEN 400
                     ELSE IF nothing THEN 400
                     ELSE IF hit = {} THEN 404 ELSE 200
       IN /\ (status = 200 => nextId <= MaxId)
          /\ req' = [op |-> "P2b.patch", auth |-> h, matricula |-> param,
                     body |-> body, now |-> now]
          /\ resp' = [status |-> status]
          /\ rec' = IF gate # 0 \/ mes = Null \/ matricula = Empty THEN rec
                    ELSE IF status = 200 THEN rec1 ELSE ensured
          /\ nextId' = IF status = 200 THEN nextId + 1 ELSE nextId
  /\ UNCHANGED <<variant, env, emp>>

P2b_Funcionarios ==
  { [matricula |-> Str(sMat10), nome |-> Str(sAna)],
    [matricula |-> Str(sMat11), nome |-> Str(sBia)] }

InitP2b ==
  /\ variant = "P2b" /\ env = Configured /\ rec = {} /\ nextId = 1
  /\ emp \in {{f \in P2b_Funcionarios : f.matricula = Str(sMat10)}, P2b_Funcionarios}
  /\ req = NoReq /\ resp = NoResp
NextP2b ==
  \/ P2b_Lancar
  \/ P2b_AdminFolhas
  \/ P2b_PatchFolha
  \/ P2b_FolhasArrive
  \/ P2b_FolhasRunQuery
  \/ Pair_Answered
  \/ Ack
SpecP2b == InitP2b /\ [][NextP2b]_vars

(***************************************************************************)
(* part_004: funcionarios and folhas, one folha per (periodo, matricula),  *)
(* every counter an INT column.  emp holds funcionarios (matricula, nome,  *)
(* escola), rec holds folhas.                                              *)
(***************************************************************************)
\* requireAdmin: jwt.verify(token, JWT_SECRET) and nothing else.
P4_requireAdmin(auth) ==
  IF auth.scheme # "Bearer" THEN 401
  ELSE IF auth.sig = "valid" /\ Truthy(env.JWT_SECRET) THEN 0 ELSE 401

\* POST /api/login
P4_Login ==
  /\ variant = "P4" /\ req = NoReq
  /\ \E senha \in Senhas :
       LET token == JwtSign("none", env.JWT_SECRET)
           status == IF senha # env.ADMIN_PASSWORD THEN 401
                     ELSE IF token = JwtThrows THEN 500 ELSE 200
       IN /\ req' = [op |-> "P4.login", senha |-> senha]
          /\ resp' = [status |-> status,
                      token |-> IF status = 200 THEN token ELSE NoAuth]
  /\ UNCHANGED <<variant, env, emp, rec, nextId>>

P4_Bodies ==
  { [periodo |-> Str(sFev), matricula |-> Str(sMat10), nome |-> Str(sAna),
     escola |-> Str(sEscolaA), faltas |-> Whole(2), falta_com_atestado |-> Whole(1),
     horas_extras |-> Whole(5), observacoes |-> Str(sOk)],
    [periodo |-> Str(sFev), matricula |-> Str(sMat10), nome |-> Str(sAna),
     escola |-> Str(sEscolaA), faltas |-> Str(sAbc), falta_com_atestado |-> Undef,
     horas_extras |-> Str(<<"3">>), observacoes |-> Undef],
    [periodo |-> Str(sMar), matricula |-> Str(sBlank), nome |-> Str(sBia),
     escola |-> Undef, faltas |-> Whole(1), falta_com_atestado |-> Undef,
     horas_extras |-> Undef, observacoes |-> Undef],
    [periodo |-> Str(sMar), matricula |-> Undef, nome |-> Str(sBia),
     escola |-> Undef, faltas |-> Whole(1), falta_com_atestado |-> Undef,
     horas_extras |-> Undef, observacoes |-> Undef],
    [periodo |-> Empty, matricula |-> Str(sMat11), nome |-> Str(sBia),
     escola |-> Str(sEscolaB), faltas |-> Undef, falta_com_atestado |-> Undef,
     horas_extras |-> Undef, observacoes |-> Undef] }

\* POST /api/folha/enviar: two statements, each committed on its own.
P4_FolhaEnviar ==
  /\ variant = "P4" /\ req = NoReq
  /\ \E b \in P4_Bodies :
       LET bad == ~Truthy(b.periodo) \/ ~Truthy(b.matricula)
           matricula == TextColumn(b.matricula)
           faltas == IntColumn(ToNumber(OrElse(b.faltas, Num(0))))
           faltaCom == IntColumn(ToNumber(OrElse(b.falta_com_atestado, Num(0))))
           he == IntColumn(ToNumber(OrElse(b.horas_extras, Num(0))))
           emp1 == IF \E f \in emp : f.matricula = matricula THEN emp
                   ELSE emp \cup {[matricula |-> matricula, nome |-> TextColumn(b.nome),
                                   escola |-> TextColumn(b.escola)]}
           failed == SqlError \in {faltas, faltaCom, he}
           rec1 == UpsertFolha(rec, nextId, TextColumn(b.periodo), matricula,
                               faltas, faltaCom, he, OrElse(b.observacoes, Empty))
       IN /\ (~bad /\ ~failed => nextId <= MaxId)
          /\ req' = [op |-> "P4.enviar", body |-> b]
          /\ resp' = [status |-> IF bad THEN 400 ELSE IF failed THEN 500 ELSE 200]
          /\ emp' = IF bad THEN emp ELSE emp1
          /\ rec' = IF bad \/ failed THEN rec ELSE rec1
          /\ nextId' = IF bad \/ failed THEN nextId ELSE nextId + 1
  /\ UNCHANGED <<variant, env>>

\* GET /api/admin/mes: funcionarios left join folhas of the period, coalesced.
P4_AdminMes ==
  /\ variant = "P4" /\ req = NoReq
  /\ \E auth \in AuthHeaders, periodo \in Periodos :
       LET gate == P4_requireAdmin(auth)
           rows == UNION {
             IF \E fl \in rec : fl.matricula = f.matricula /\ fl.periodo = periodo
             THEN {[matricula |-> f.matricula, nome |-> f.nome, escola |-> f.escola,
                    periodo |-> periodo, faltas |-> SqlCoalesce(fl.faltas, Num(0)),
                    falta_com_atestado |-> SqlCoalesce(fl.falta_com_atestado, Num(0)),
                    horas_extras |-> SqlCoalesce(fl.horas_extras, Num(0)),
                    observacoes |-> SqlCoalesce(fl.observacoes, Empty)]
                   : fl \in {x \in rec : x.matricula = f.matricula
                                          /\ x.periodo = periodo}}
             ELSE {[matricula |-> f.matricula, nome |-> f.nome, escola |-> f.escola,
                    periodo |-> periodo, faltas |-> Num(0),
                    falta_com_atestado |-> Num(0), horas_extras |-> Num(0),
                    observacoes |-> Empty]}
             : f \in emp}
       IN /\ req' = [op |-> "P4.admin.mes", auth |-> auth, periodo |-> periodo]
          /\ resp' = IF gate # 0 THEN [status |-> gate]
                     ELSE [status |-> 200, rows |-> rows]
  /\ UNCHANGED <<variant, env, emp, rec, nextId>>

InitP4 ==
  /\ variant = "P4" /\ env \in Environments /\ emp = {} /\ rec = {} /\ nextId = 1
  /\ req = NoReq /\ resp = NoResp
NextP4 ==
  \/ P4_Login
  \/ P4_FolhaEnviar
  \/ P4_AdminMes
  \/ Ack
SpecP4 == InitP4 /\ [][NextP4]_vars

(***************************************************************************)
(* The repository holds several server programs; the initial state picks   *)
(* the one that runs.                                                      *)
(***************************************************************************)
Init ==
  \/ InitS1
  \/ InitP4
  \/ InitS2
  \/ InitS3
  \/ InitP1
  \/ InitP2a
  \/ InitP2b
  \/ InitP3
  \/ InitP5a
  \/ InitP6
Next ==
  \/ NextS1
  \/ NextP4
  \/ NextS2
  \/ NextS3
  \/ NextP1
  \/ NextP2a
  \/ NextP2b
  \/ NextP3
  \/ NextP5a
  \/ NextP6
Spec == Init /\ [][Next]_vars

\* The three programs whose POST /api/folha/enviar replaces the month's record.
InitReplace == InitS3 \/ InitP1 \/ InitP5a
NextReplace == NextS3 \/ NextP1 \/ NextP5a
SpecReplace == InitReplace /\ [][NextReplace]_vars

(***************************************************************************)
(* Claims about the funcionarios/registros variant.                        *)
(***************************************************************************)
C1_Unique ==
  \A a \in rec, b \in rec :
    (a.periodo = b.periodo /\ a.escola = b.escola /\ a.matricula = b.matricula)
      => a = b

\* The step is a PUT whose target key is held by a row other than the edited one.
C1_EditOntoHeldKey ==
  /\ req = NoReq /\ req'.op = "S2.put"
  /\ \E r \in rec, o \in rec :
       /\ r.id = req'.id /\ o.id # r.id /\ o.matricula = r.matricula
       /\ o.escola = Str(Trim(req'.escola.s))
       /\ o.periodo = Str(Trim(req'.periodo.s))

\* C1: in the funcionarios/registros variant registros never holds two rows
\* with the same (periodo, escola, matricula), whatever sequence of enviar,
\* PUT and DELETE ran; a PUT that would move a row onto a key held by another
\* row does not answer 200 and leaves every row as it was.
C1_OneRowPerKey ==
  /\ [](variant = "S2" => C1_Unique)
  /\ [][C1_EditOntoHeldKey => (rec' = rec /\ resp'.status # 200)]_vars

C1_Witness ==
  /\ req.op = "S2.put" /\ req.auth = AdminAuth /\ resp.status = 500
  /\ Cardinality(rec) = 2

RECURSIVE C7_Total(_, _, _, _)
\* The sum of column col over the registros rows with ids 1..i of employee m
\* in period P.
C7_Total(i, P, m, col) ==
  IF i = 0 THEN 0
  ELSE C7_Total(i - 1, P, m, col)
       + (IF \E r \in rec : r.id = i /\ r.periodo = P /\ r.matricula = m
          THEN (CHOOSE r \in rec : r.id = i /\ r.periodo = P /\ r.matricula = m)[col].n
          ELSE 0)

\* C7: GET /api/admin/mes for a valid period P answers exactly one row per
\* funcionarios row; its horas, falta_atestado and falta_sem_atestado are the
\* sums over the employee's registros rows of P across all schools, and 0 with
\* empty escolas and obs when the employee has no row for P.
C7_RosterSums ==
  (variant = "S2" /\ req.op = "S2.admin.mes" /\ resp.status = 200) =>
    LET P == Str(Trim(req.periodo.s)) IN
    /\ \A f \in emp :
         Cardinality({x \in resp.rows : x.matricula = f.matricula}) = 1
    /\ \A x \in resp.rows :
         /\ \E f \in emp : f.matricula = x.matricula /\ f.nome = x.nome
         /\ x.horas = Num(C7_Total(nextId - 1, P, x.matricula, "horas"))
         /\ x.falta_atestado
              = Num(C7_Total(nextId - 1, P, x.matricula, "falta_atestado"))
         /\ x.falta_sem_atestado
              = Num(C7_Total(nextId - 1, P, x.matricula, "falta_sem_atestado"))
         /\ x.escolas = {r.escola : r \in {y \in rec : y.periodo = P
                                                       /\ y.matricula = x.matricula}}
         /\ (~\E r \in rec : r.periodo = P /\ r.matricula = x.matricula)
              => /\ x.horas = Num(0) /\ x.falta_atestado = Num(0)
                 /\ x.falta_sem_atestado = Num(0)
                 /\ x.escolas = {} /\ x.obs = {}

\* A roster whose row adds the records of two schools.
C7_Witness ==
  /\ variant = "S2" /\ req.op = "S2.admin.mes" /\ resp.status = 200
  /\ \E x \in resp.rows : Cardinality(x.escolas) = 2 /\ x.horas.n > 0

(***************************************************************************)
(* Claims about the record-writing endpoints.                              *)
(***************************************************************************)
\* C2: for POST /api/reports and POST /api/enviar (server.js 73-143) and
\* POST /api/folha (part_003), two submissions with identical
\* (period, matricula, school) never leave two stored rows.
C2_OneRowPerSubmissionKey ==
  /\ variant = "S1" =>
       \A a \in rec, b \in rec :
         (a.periodo = b.periodo /\ a.matricula = b.matricula /\ a.escola = b.escola)
           => a = b
  /\ variant = "P3" =>
       \A a \in rec, b \in rec :
         (a.mes = b.mes /\ a.ano = b.ano /\ a.matricula = b.matricula) => a = b

\* The folhas row a body of the funcionarios/folhas programs asks for.
C3_FolhaOf(b, obsDefault) ==
  [periodo |-> Str(Trim(b.periodo.s)), matricula |-> Str(Trim(b.matricula.s)),
   faltas |-> FiniteOr(b.faltas, Num(0)),
   falta_com_atestado |->
     FiniteOr(b.falta_com_atestado, FiniteOr(b.falta_sem_atestado, Num(0))),
   falta_sem_atestado |->
     FiniteOr(b.falta_com_atestado, FiniteOr(b.falta_sem_atestado, Num(0))),
   horas_extras |-> FiniteOr(b.horas_extras, Num(0)),
   observacoes |-> IF IsNullish(b.observacoes) THEN obsDefault ELSE b.observacoes]

\* The folha_envios row a body of part_001 asks for.
C3_EnvioOf(b) ==
  [periodo |-> Str(Trim(b.periodo.s)), escola |-> P1_asText(b.escola),
   matricula |-> P1_asText(b.matricula), nome |-> P1_asText(b.nome),
   funcao |-> P1_asText(b.funcao), vinculo |-> P1_asText(b.vinculo),
   carga |-> P1_asText(b.carga), faltas |-> P1_asInt(b.faltas, Num(0)),
   horas_extras |-> Numeric2Column(P1_asNum(b.horas_extras, Num(0))),
   observacao |-> P1_asText(b.observacao)]

\* The stored rows without their ids.
C3_Stored == {[f \in DOMAIN r \ {"id"} |-> r[f]] : r \in rec}

C4_Row(t, mes, matricula) ==
  IF \E r \in t : r.mes = mes /\ r.matricula = matricula
  THEN CHOOSE r \in t : r.mes = mes /\ r.matricula = matricula
  ELSE [mes |-> mes, matricula |-> matricula, faltas |-> Num(0),
        faltas_atestado |-> Num(0), horas_extras |-> Num(0), obs |-> Empty]

C4_LancarStep ==
  (req = NoReq /\ req'.op = "P2b.lancar" /\ resp'.status = 200) =>
    LET b == req'.body
        mes == IF Truthy(b.mes) THEN b.mes ELSE req'.now
        matricula == Str(Trim(b.matricula.s))
        before == C4_Row(rec, mes, matricula)
        after == C4_Row(rec', mes, matricula)
    IN /\ Cardinality({r \in rec' : r.mes = mes /\ r.matricula = matricula}) = 1
       /\ after.faltas.n = before.faltas.n + P2b_toInt(b.faltas, Num(0)).n
       /\ after.faltas_atestado.n
            = before.faltas_atestado.n + P2b_toInt(b.faltas_atestado, Num(0)).n
       /\ after.horas_extras.n
            = before.horas_extras.n + P2b_toInt(b.horas_extras, Num(0)).n
       /\ after.obs = IF b.obs = Undef THEN before.obs
                      ELSE IF b.obs = Null THEN Empty ELSE Str(JsString(b.obs))

\* C4: in the increment variant every accepted POST /api/folha/lancar adds the
\* coerced faltas, faltas_atestado and horas_extras to the stored counters of
\* the (mes, matricula) row (counted from 0 when the call creates the row),
\* so n calls add v1+...+vn; obs is replaced when the body supplies it and
\* kept when it is omitted.
C4_LancarAdds == [][C4_LancarStep]_vars

\* Two accepted calls for one row: 2 + 2 excused absences, 3 + 3 hours.
C4_Witness ==
  /\ variant = "P2b" /\ req.op = "P2b.lancar" /\ resp.status = 200
  /\ \E r \in rec : /\ r.faltas = Whole(2) /\ r.faltas_atestado = Whole(4)
                    /\ r.horas_extras = Whole(6)

\* Absent, empty or whitespace-only.
C5_Blank(v) == IsNullish(v) \/ (IsStr(v) /\ Trim(v.s) = <<>>)

\* Field x of the stored employee keeps a non-empty value when v is blank and
\* takes v when it is not.
C5_Filled(old, new, v) ==
  /\ (C5_Blank(v) /\ old \notin {Null, Empty}) => new = old
  /\ ~C5_Blank(v) => Trim(new.s) = Trim(JsString(v))

C5_Step ==
  /\ (req = NoReq /\ req'.op = "S2.enviar" /\ resp'.status = 200) =>
       \A i \in 1..Len(req'.itens) : \A f \in emp : \A g \in emp' :
         (/\ f.matricula = Str(Trim(JsString(req'.itens[i].matricula)))
          /\ g.matricula = f.matricula)
           => C5_Filled(f.nome, g.nome, req'.itens[i].nome)
  /\ (req = NoReq /\ req'.op = "P6.enviar" /\ resp'.status = 200) =>
       \A f \in emp : \A g \in emp' :
         (/\ f.matricula = Str(Trim(JsString(req'.body.matricula)))
          /\ g.matricula = f.matricula)
           => /\ C5_Filled(f.nome, g.nome, req'.body.nome)
              /\ C5_Filled(f.funcao, g.funcao, req'.body.funcao)
              /\ C5_Filled(f.vinculo, g.vinculo, req'.body.vinculo)
              /\ C5_Filled(f.carga, g.carga, req'.body.carga)
              /\ C5_Filled(f.escola, g.escola, req'.body.escola)

\* C5: POST /api/folha/enviar of part_006 (nome, funcao, vinculo, carga,
\* escola) and of the funcionarios/registros variant (nome): a submitted value
\* that is absent, empty or whitespace-only leaves a non-empty stored value
\* unchanged, and a non-empty submitted value replaces it.
C5_FillDontErase == [][C5_Step]_vars

\* Field x of the stored employee is not overwritten by an empty or absent v.
C6_Kept(old, new, v) ==
  ((IsNullish(v) \/ v = Empty) /\ old \notin {Null, Empty}) => new = old

C6_Step ==
  /\ (req = NoReq /\ req'.op = "P1.enviar") =>
       \A f \in emp : \A g \in emp' :
         (f.matricula = P1_asText(req'.body.matricula) /\ g.matricula = f.matricula)
           => /\ C6_Kept(f.nome, g.nome, req'.body.nome)
              /\ C6_Kept(f.funcao, g.funcao, req'.body.funcao)
              /\ C6_Kept(f.vinculo, g.vinculo, req'.body.vinculo)
              /\ C6_Kept(f.carga, g.carga, req'.body.carga)
  /\ (req = NoReq /\ req'.op = "S3.enviar") =>
       \A f \in emp : \A g \in emp' :
         (/\ f.matricula = Str(Trim(JsString(req'.body.matricula)))
          /\ g.matricula = f.matricula)
           => /\ C6_Kept(f.nome, g.nome, req'.body.nome)
              /\ C6_Kept(f.funcao, g.funcao, req'.body.funcao)
              /\ C6_Kept(f.vinculo, g.vinculo, req'.body.vinculo)
              /\ C6_Kept(f.carga, g.carga, req'.body.carga)
              /\ C6_Kept(f.escola, g.escola, req'.body.escola)

\* C6: POST /api/folha/enviar of part_001 and of the funcionarios/folhas
\* variant: a submitted nome, funcao, vinculo, carga or escola that is the
\* empty string or absent never overwrites a non-empty stored employee value.
C6_EmptyNeverOverwrites == [][C6_Step]_vars

(***************************************************************************)
(* Claims about the monthly views and the admin gate.                      *)
(***************************************************************************)
\* C8: GET /api/admin/mes of the funcionarios/folhas variant, of part_006
\* (no school filter) and of the first variant of part_005 answers a row for
\* every stored employee, and the numeric fields of the row of an employee
\* with no record for the period are 0.
C8_RosterZeros ==
  ( /\ resp.status = 200
    /\ \/ req.op \in {"S3.admin.mes", "P5a.admin.mes"}
       \/ (req.op = "P6.admin.mes" /\ req.escola = Undef) )
    => \A f \in emp :
         /\ \E x \in resp.rows : x.matricula = f.matricula
         /\ (~\E r \in rec : /\ r.matricula = f.matricula
                             /\ r.periodo = Str(Trim(req.periodo.s)))
              => \A x \in resp.rows :
                   x.matricula = f.matricula
                     => /\ x.faltas = Num(0) /\ x.horas_extras = Num(0)
                        /\ (req.op # "P6.admin.mes" => x.falta_com_atestado = Num(0))

\* C9: GET /api/admin/mes of part_001 and GET /api/admin/folhas of part_002
\* (lines 1-294) answer a row for every stored employee, also for employees
\* with no record for the requested month.
C9_RosterComplete ==
  ( /\ resp.status = 200
    /\ \/ (req.op = "P1.admin.mes" /\ req.escola = Undef)
       \/ req.op = "P2a.admin.folhas" )
    => \A f \in emp : \E x \in resp.rows : x.matricula = f.matricula

\* C10: an admin-only operation called with no Authorization header answers
\* 401; stated for GET /api/admin/mes, /api/admin/balanco and
\* /api/admin/registros of the funcionarios/registros variant and for the
\* /api/admin/* routes of part_003.
C10_NoHeaderIs401 ==
  ( /\ req.op \in {"S2.admin.mes", "S2.admin.balanco", "S2.admin.registros",
                   "P3.admin.funcionarios.list", "P3.admin.funcionarios.create",
                   "P3.admin.folhas.list", "P3.admin.folha.edit"}
    /\ req.auth = NoAuth )
    => resp.status = 401

(***************************************************************************)
(* Claims about login and the admin middlewares.                           *)
(***************************************************************************)
\* C11: when ADMIN_PASSWORD or the signing secret is not configured, POST
\* /api/login of part_004, of server.js lines 35-39 (which reads the password
\* only) and of part_001 answers an error and issues no credential, whatever
\* the body.
C11_LoginFailsClosed ==
  ( /\ req.op \in {"P4.login", "S1.login", "P1.login"}
    /\ (env.ADMIN_PASSWORD = Undef \/ env.JWT_SECRET = Undef) )
    => (resp.status # 200 /\ resp.token = NoAuth)

\* C12: a correctly signed, unexpired credential whose role is not admin is
\* answered 403 by requireAdmin of the funcionarios/registros variant, by
\* requireAdmin of part_004 and by auth of the increment variant of part_002,
\* so the guarded handler does not run.
C12_NonAdminIs403 ==
  ( /\ req.op \in {"S2.put", "S2.delete", "P4.admin.mes", "P2b.admin.folhas",
                   "P2b.patch"}
    /\ req.auth = UserAuth
    /\ env.JWT_SECRET # Undef )
    => resp.status = 403

(***************************************************************************)
(* Claims about the admin delete and edit handlers.                        *)
(***************************************************************************)
\* The rows the delete request q resolves to in the table t.
C13_Target(q, t) ==
  IF q.op = "P6.delete"
  THEN {s \in t : s.periodo = q.periodo /\ s.matricula = q.matricula}
  ELSE {r \in t : r.id = q.id}

C13_Step ==
  ( /\ req = NoReq
    /\ req'.op \in {"P1.delete", "S2.delete", "P6.delete"}
    /\ req'.auth = AdminAuth
    /\ (req'.op = "P6.delete" => (req'.periodo \in Periodos /\ req'.matricula # Undef)) )
    => IF C13_Target(req', rec) # {}
       THEN resp'.status = 200 /\ rec' = rec \ C13_Target(req', rec)
       ELSE resp'.status = 404 /\ rec' = rec

\* C13: DELETE /api/admin/registro/:id of part_001, DELETE /api/registros/:id
\* of server.js and DELETE /api/admin/registro?periodo&matricula of part_006,
\* called by an admin: a delete of an existing record answers success and
\* removes it, and a delete of a key that resolves to no row (the same delete
\* repeated, for one) answers 404 and changes nothing.
C13_DeleteTwice == [][C13_Step]_vars

(***************************************************************************)
(* Claims about the validation of a submission.                            *)
(***************************************************************************)
\* Four digits, a hyphen and a month 01..12.
C14_ValidPeriod(p) ==
  /\ IsStr(p) /\ IsYearMonth(p.s)
  /\ DigitsVal(SubSeq(p.s, 6, 7)) \in 1..12

C14_Step ==
  /\ (req = NoReq /\ req'.op = "S2.enviar" /\ ~C14_ValidPeriod(req'.periodo))
       => (resp'.status = 400 /\ emp' = emp /\ rec' = rec)
  /\ (req = NoReq /\ req'.op = "P6.enviar" /\ ~C14_ValidPeriod(req'.body.periodo))
       => (resp'.status = 400 /\ emp' = emp /\ rec' = rec)

\* C14: POST /api/folha/enviar of the funcionarios/registros variant and of
\* part_006 accepts a submission only if its period is four digits, a hyphen
\* and a month in 01..12; any other period is answered 400 and writes no
\* employee and no record.
C14_PeriodValidated == [][C14_Step]_vars

\* Absent, empty or whitespace-only.
C15_Blank(v) == IsNullish(v) \/ (IsStr(v) /\ Trim(v.s) = <<>>)

C15_Step ==
  /\ ( /\ req = NoReq /\ req'.op = "S2.enviar" /\ req'.fails = 0
       /\ \E k \in 1..Len(req'.itens) : C15_Blank(req'.itens[k].matricula) )
       => (resp'.status = 400 /\ emp' = emp /\ rec' = rec)
  /\ (req = NoReq /\ req'.op = "P4.enviar" /\ C15_Blank(req'.body.matricula))
       => (resp'.status = 400 /\ emp' = emp /\ rec' = rec)

\* C15: a submission whose matricula is absent, empty or whitespace-only is
\* answered 400 and writes nothing, for every item of the batch POST
\* /api/folha/enviar of the funcionarios/registros variant and for POST
\* /api/folha/enviar of part_004.
C15_MatriculaRequired == [][C15_Step]_vars

\* A value that is present and is not the text of a finite number.
C16_Unparsable(v) == IsStr(v) /\ Trim(v.s) # <<>> /\ ~IsNum(ToNumber(v))

C16_Step ==
  ( /\ req = NoReq
    /\ req'.op \in {"P6.enviar", "P4.enviar", "P2a.upsert"}
    /\ (C16_Unparsable(req'.body.faltas) \/ C16_Unparsable(req'.body.horas_extras)) )
    => /\ resp'.status = 200
       /\ \E r \in rec' :
            /\ r.matricula = Str(Trim(JsString(req'.body.matricula)))
            /\ (C16_Unparsable(req'.body.faltas) => r.faltas = Num(0))
            /\ (C16_Unparsable(req'.body.horas_extras) => r.horas_extras = Num(0))

\* C16: a submission whose absences or overtime value is unparsable (the
\* string "abc") succeeds and stores 0 for that field, in POST
\* /api/folha/enviar of part_006 and part_004 and in POST /api/folha/upsert of
\* part_002; it never ends in an error response.
C16_UnparsableIsZero == [][C16_Step]_vars

(***************************************************************************)
(* Claims about the atomicity of a submission.                             *)
(***************************************************************************)
C17_Step ==
  (req = NoReq /\ req'.op = "S2.enviar") =>
    /\ req'.fails # 0 => resp'.status = 500
    /\ resp'.status # 200 => (emp' = emp /\ rec' = rec)
    /\ resp'.status = 200 =>
         \A k \in 1..Len(req'.itens) :
           LET m == Str(Trim(JsString(OrElse(req'.itens[k].matricula, Empty)))) IN
           m # Empty =>
             /\ \E f \in emp' : f.matricula = m
             /\ \E r \in rec' : /\ r.matricula = m
                                /\ r.periodo = req'.periodo
                                /\ r.escola = req'.escola

\* C17: the batch POST /api/folha/enviar of the funcionarios/registros
\* variant is all-or-nothing: when a statement of any item fails the answer
\* is an error and no funcionarios or registros row written by the request
\* remains; when the request succeeds every item with a matricula has its
\* funcionarios row and its registros row.
C17_BatchAtomic == [][C17_Step]_vars

\* The second item of a batch failed after the statements of the first ran.
C17_Witness ==
  /\ req.op = "S2.enviar" /\ req.fails = 2 /\ resp.status = 500
  /\ nextId = 2 /\ emp = {} /\ rec = {}

C18_Step ==
  ( /\ req = NoReq
    /\ req'.op \in {"S3.enviar", "P6.enviar", "P1.enviar"}
    /\ rec' = rec /\ resp'.status # 200 )
    => emp' = emp

\* C18: in POST /api/folha/enviar of the funcionarios/folhas variant, of
\* part_006 and of part_001, a request whose record upsert fails persists no
\* employee upsert: no employee is created or modified by a request that
\* stored no record.
C18_NoEmployeeWithoutRecord == [][C18_Step]_vars

(***************************************************************************)
(* Claims about records per school.                                        *)
(***************************************************************************)
\* The school the stored record r was submitted for: its escola column in
\* part_006; in the funcionarios/folhas variant, whose folhas has no such
\* column, the escola of the employee row the submission wrote.
C19_SchoolOf(r) ==
  IF variant = "P6" THEN r.escola
  ELSE IF \E f \in emp : f.matricula = r.matricula
       THEN (CHOOSE f \in emp : f.matricula = r.matricula).escola
       ELSE Null

C19_Step ==
  ( /\ req = NoReq
    /\ req'.op \in {"P6.enviar", "S3.enviar"}
    /\ resp'.status = 200 )
    => LET b == req'.body
           school == Str(Trim(JsString(OrElse(b.escola, Empty))))
       IN \A r \in rec :
            ( /\ r.periodo = Str(Trim(JsString(b.periodo)))
              /\ r.matricula = Str(Trim(JsString(b.matricula)))
              /\ school # Empty
              /\ C19_SchoolOf(r) \notin {Null, Empty, school} )
              => (r \in rec' /\ Cardinality(rec') = Cardinality(rec) + 1)

\* C19: in POST /api/folha/enviar of part_006 and of the funcionarios/folhas
\* variant, a submission for a period and matricula that already have a
\* record of another non-empty school stores a second, independent record
\* and leaves the record of the other school unchanged.
C19_RecordPerSchool == [][C19_Step]_vars

(***************************************************************************)
(* Claims about the admin edit of a record.                                *)
(***************************************************************************)
\* The record fields the edit request q can carry.
C20_Fields(q) ==
  CASE q.op = "S2.put" -> {"horas", "falta_atestado", "falta_sem_atestado", "obs"}
    [] q.op = "P1.put" -> {"faltas", "horas_extras", "observacao"}
    [] q.op = "P2b.patch" -> {"faltas", "faltas_atestado", "horas_extras", "obs"}

\* r and n are the same record, before and after the edit q.
C20_Same(q, r, n) ==
  IF q.op = "P2b.patch"
  THEN /\ r.mes = q.body.mes /\ r.matricula = q.matricula
       /\ n.mes = r.mes /\ n.matricula = r.matricula
  ELSE r.id = q.id /\ n.id = r.id

C20_Step ==
  ( /\ req = NoReq
    /\ req'.op \in {"S2.put", "P1.put", "P2b.patch"}
    /\ resp'.status = 200 )
    => \A r \in rec : \A n \in rec' :
         C20_Same(req', r, n) =>
           \A f \in C20_Fields(req') :
             /\ req'.body[f] = Undef => n[f] = r[f]
             /\ IsNum(req'.body[f]) => n[f] = req'.body[f]

\* C20: PUT /api/admin/registro/:id of part_001, PUT /api/registros/:id of
\* server.js and PATCH /api/admin/folhas/:matricula of part_002 set the
\* fields the body supplies, and every record field the body omits keeps its
\* stored value.
C20_EditKeepsOmitted == [][C20_Step]_vars


(***************************************************************************)
(* Claims about admin edits, totals and stored counters.                   *)
(***************************************************************************)
\* The rows the edit request q resolves to in the table t.
C21_Target(q, t) ==
  CASE q.op = "P1.put" -> {r \in t : r.id = q.id}
    [] q.op = "P6.put" ->
         {s \in t : /\ s.periodo = q.body.periodo
                    /\ s.matricula = Str(Trim(JsString(OrElse(q.body.matricula, Empty))))}
    [] q.op = "P2a.put" ->
         {r \in t : /\ r.matricula = q.matricula
                    /\ r.ano = P2a_toInt(q.body.ano, P2a_ThisYear)
                    /\ r.mes = P2a_normMes(q.body.mes)}

C21_Step ==
  ( /\ req = NoReq
    /\ req'.op \in {"P1.put", "P6.put", "P2a.put"}
    /\ resp'.status \notin {400, 401, 403, 500}
    /\ C21_Target(req', rec) = {} )
    => resp'.status = 404 /\ rec' = rec

\* C21: PUT /api/admin/registro of part_006, PUT /api/admin/folhas/:matricula
\* of part_002 and PUT /api/admin/registro/:id of part_001: an edit that is
\* authorised and well formed and names a record that does not exist answers
\* 404 and creates no record.
C21_EditOfMissingIs404 == [][C21_Step]_vars


\* The count (col = "count") or the sum of column col over the folha_envios
\* rows of ids 1..i stored for period P and, when E is not empty, school E.
RECURSIVE C22_Total(_, _, _, _)
C22_Total(i, P, E, col) ==
  IF i = 0 THEN 0
  ELSE LET hit == {r \in rec : /\ r.id = i /\ r.periodo = P
                               /\ (E = Empty \/ r.escola = E)}
           v == IF hit = {} THEN 0
                ELSE IF col = "count" THEN 1
                ELSE (CHOOSE r \in hit : TRUE)[col].n
       IN v + C22_Total(i - 1, P, E, col)

\* C22: GET /api/admin/mes of part_001, answered 200 for period P and the
\* optional school E: total_registros is the number of folha_envios rows stored
\* for P (and E), horas_extras_soma and faltas_soma are the sums of their
\* horas_extras and faltas, in every state that submissions, admin edits and
\* admin deletes reach.
C22_KpisMatchRows ==
  (req.op = "P1.admin.mes" /\ resp.status = 200) =>
    LET P == P1_normalizePeriodo(req.periodo)
        E == P1_asText(req.escola)
    IN /\ resp.kpis.total_registros = C22_Total(MaxId, P, E, "count")
       /\ resp.kpis.horas_extras_soma = Num(C22_Total(MaxId, P, E, "horas_extras"))
       /\ resp.kpis.faltas_soma = Num(C22_Total(MaxId, P, E, "faltas"))

\* One submission of period 2026-02 with 3.5 overtime hours is stored and the
\* report of 2026-02 counts 1 record and 3.5 hours.
C22_Witness ==
  /\ req.op = "P1.admin.mes" /\ resp.status = 200
  /\ req.periodo = Str(sFev)
  /\ Cardinality(rec) = 1
  /\ \E r \in rec : r.periodo = Str(sFev) /\ r.horas_extras = Num(3500)
  /\ resp.kpis.total_registros = 1
  /\ resp.kpis.horas_extras_soma = Num(3500)


\* The matricula an item or a body carries, trimmed.
C23_Matricula(it) == Str(Trim(JsString(OrElse(it.matricula, Empty))))

C23_Step ==
  /\ (req = NoReq /\ req'.op = "S2.enviar" /\ resp'.status = 200) =>
       \A k \in 1..Len(req'.itens) :
         LET it == req'.itens[k] IN
         ( /\ C23_Matricula(it) # Empty
           /\ IsNum(it.horas) /\ it.horas.n >= 0
           /\ \A j \in (k + 1)..Len(req'.itens) :
                C23_Matricula(req'.itens[j]) # C23_Matricula(it) )
           => \E r \in rec' : /\ r.escola = Str(Trim(JsString(req'.escola)))
                              /\ r.periodo = S2_normalizePeriodo(req'.periodo)
                              /\ r.matricula = C23_Matricula(it)
                              /\ r.horas = it.horas
  /\ (req = NoReq /\ req'.op = "P2b.lancar" /\ resp'.status = 200) =>
       LET b == req'.body
           mes == P2b_normalizeMonth(b.mes, req'.now)
       IN IsNum(b.horas_extras) =>
            C4_Row(rec', mes, C23_Matricula(b)).horas_extras.n
              = C4_Row(rec, mes, C23_Matricula(b)).horas_extras.n + b.horas_extras.n

\* C23: overtime hours sent as a number with a fraction are stored as sent:
\* POST /api/folha/enviar of server.js (267-758) stores the item's horas in the
\* registros row, and POST /api/folha/lancar of part_002 (296-680) adds the
\* body's horas_extras to the folhas row, without rounding or truncation.
C23_FractionKept == [][C23_Step]_vars


\* v is a whole number that is not negative.
C24_Count(v) == IsNum(v) /\ v.n >= 0 /\ v.n % Scale = 0

\* C24: in server.js (760-1170), part_001 and part_002 (296-680) every stored
\* absence counter is an integer that is not negative: a negative absence
\* count in a submission never leaves a negative value stored.
C24_AbsencesNotNegative ==
  /\ variant = "S3" =>
       \A r \in rec : /\ C24_Count(r.faltas) /\ C24_Count(r.falta_com_atestado)
                      /\ C24_Count(r.falta_sem_atestado)
  /\ variant = "P1" => \A r \in rec : C24_Count(r.faltas)
  /\ variant = "P2b" =>
       \A r \in rec : C24_Count(r.faltas) /\ C24_Count(r.faltas_atestado)


(***************************************************************************)
(* Two POST /api/folha/enviar requests in flight at once, in server.js     *)
(* 760-1170 and in part_001.  A handler awaits its employee upsert, then   *)
(* its record upsert, each its own query on the pool: the four statements  *)
(* of two requests reach the database in any order that keeps each         *)
(* request's own order.  req holds both bodies, the number of statements   *)
(* each request has run, and the tables as they were when the two arrived. *)
(***************************************************************************)
\* Statement k of the server.js handler for body, on db = [emp, rec, nextId].
S3_Query(k, body, db) ==
  LET matricula == Str(Trim(JsString(OrElse(body.matricula, Empty))))
      periodo == Str(Trim(JsString(OrElse(body.periodo, Empty))))
      fca == FiniteOr(body.falta_com_atestado, FiniteOr(body.falta_sem_atestado, Num(0)))
  IN IF k = 1
     THEN [db EXCEPT !.emp = S3_UpsertFuncionario(db.emp, matricula,
                               TextColumn(body.nome), TextColumn(body.funcao),
                               TextColumn(body.vinculo), TextColumn(body.carga),
                               TextColumn(body.escola))]
     ELSE [db EXCEPT !.rec = UpsertFolha(db.rec, db.nextId, periodo, matricula,
                               IntColumn(FiniteOr(body.faltas, Num(0))), IntColumn(fca),
                               IntColumn(FiniteOr(body.horas_extras, Num(0))),
                               TextColumn(body.observacoes)),
                    !.nextId = db.nextId + 1]

\* Statement k of the part_001 handler for body.
P1_Query(k, body, db) ==
  LET matricula == P1_asText(body.matricula) IN
  IF k = 1
  THEN [db EXCEPT !.emp = P1_UpsertEmployee(db.emp, matricula, P1_asText(body.nome),
                            P1_asText(body.funcao), P1_asText(body.vinculo),
                            P1_asText(body.carga))]
  ELSE [db EXCEPT
          !.rec = P1_UpsertEnvio(db.rec, db.nextId,
                    [id |-> 0, periodo |-> P1_normalizePeriodo(body.periodo),
                     escola |-> P1_asText(body.escola), matricula |-> matricula,
                     nome |-> P1_asText(body.nome), funcao |-> P1_asText(body.funcao),
                     vinculo |-> P1_asText(body.vinculo),
                     carga |-> P1_asText(body.carga),
                     faltas |-> IntColumn(P1_asInt(body.faltas, Num(0))),
                     horas_extras |->
                       Numeric2Column(P1_asNum(body.horas_extras, Num(0))),
                     observacao |-> P1_asText(body.observacao)]),
          !.nextId = db.nextId + 1]

Enviar_Query(k, body, db) ==
  IF variant = "S3" THEN S3_Query(k, body, db) ELSE P1_Query(k, body, db)

\* Pairs of different bodies that the handler accepts and that name the same
\* record: (periodo, matricula) in server.js, and escola too in part_001.
Enviar_Pairs ==
  IF variant = "S3"
  THEN {p \in FolhaBodies \X FolhaBodies :
          /\ p[1] # p[2]
          /\ \A i \in 1..2 : p[i].periodo = Str(sFev) /\ p[i].matricula = Str(sMat10)}
  ELSE {p \in P1_Bodies \X P1_Bodies :
          /\ p[1] # p[2]
          /\ \A i \in 1..2 : /\ p[i].periodo = Str(sFev)
                             /\ P1_asText(p[i].escola) = Str(sEscolaA)
                             /\ P1_asText(p[i].matricula) = Str(sMat10)}

\* Requests A and B arrive together.
Enviar_Arrive ==
  /\ variant \in {"S3", "P1"} /\ req = NoReq /\ nextId <= MaxId
  /\ \E p \in Enviar_Pairs :
       req' = [op |-> "enviar.pair", a |-> p[1], b |-> p[2], pa |-> 0, pb |-> 0,
               db0 |-> [emp |-> emp, rec |-> rec, nextId |-> nextId]]
  /\ UNCHANGED <<variant, env, emp, rec, nextId, resp>>

\* The database runs the next statement of A, or the next statement of B;
\* both requests are answered 200 once their second statement has run.
Enviar_RunQuery ==
  /\ req.op = "enviar.pair"
  /\ \E who \in {"a", "b"} :
       LET k == (IF who = "a" THEN req.pa ELSE req.pb) + 1
           db == Enviar_Query(k, req[who], [emp |-> emp, rec |-> rec, nextId |-> nextId])
           q == IF who = "a" THEN [req EXCEPT !.pa = k] ELSE [req EXCEPT !.pb = k]
       IN /\ k <= 2
          /\ req' = q
          /\ emp' = db.emp /\ rec' = db.rec /\ nextId' = db.nextId
          /\ resp' = IF q.pa = 2 /\ q.pb = 2 THEN [status |-> 200] ELSE resp
  /\ UNCHANGED <<variant, env>>

InitPair == InitS3 \/ InitP1
NextPair ==
  \/ Enviar_Arrive
  \/ Enviar_RunQuery
  \/ Pair_Answered
  \/ S3_FolhaEnviar
  \/ P1_FolhaEnviar
  \/ Ack
SpecPair == InitPair /\ [][NextPair]_vars

\* The tables after the handler ran for body x and then for body y on db.
C25_Serial(x, y, db) ==
  Enviar_Query(2, y, Enviar_Query(1, y, Enviar_Query(2, x, Enviar_Query(1, x, db))))

\* C25: two POST /api/folha/enviar requests A and B for the same key, in
\* server.js (760-1170) and in part_001, whose statements the database runs
\* interleaved: once both are answered there is one record for the key, and
\* the employee row and the record row are those that A then B, or B then A,
\* would have left.
C25_PairIsSerial ==
  (req.op = "enviar.pair" /\ req.pa = 2 /\ req.pb = 2) =>
    \E s \in {C25_Serial(req.a, req.b, req.db0), C25_Serial(req.b, req.a, req.db0)} :
      emp = s.emp /\ rec = s.rec


C26_Step ==
  ( /\ req = NoReq
    /\ req'.op \in {"P2b.lancar", "P2b.patch"}
    /\ req'.body.mes \in {Undef, Empty}
    /\ resp'.status \notin {401, 403} )
    => resp'.status = 400 /\ rec' = rec

\* C26: in part_002 (296-680) POST /api/folha/lancar and PATCH
\* /api/admin/folhas/:matricula whose mes is absent or empty are answered 400
\* and change no folhas row.
C26_MonthRequired == [][C26_Step]_vars


C27_Step ==
  (req = NoReq /\ req'.op = "P5a.enviar") =>
    LET b == req'.body
        matricula == Str(Trim(JsString(OrElse(b.matricula, Empty))))
    IN /\ emp \subseteq emp'
       /\ \A f \in emp' \ emp :
            /\ ~\E g \in emp : g.matricula = f.matricula
            /\ f = [matricula |-> matricula, nome |-> TextColumn(b.nome),
                    funcao |-> TextColumn(b.funcao), vinculo |-> TextColumn(b.vinculo),
                    carga |-> TextColumn(b.carga), escola |-> TextColumn(b.escola)]

\* C27: POST /api/folha/enviar of part_005 (1-259) leaves nome, funcao,
\* vinculo, carga and escola of every existing funcionarios row as they were;
\* the submitted employee fields are stored only in the row the submission
\* creates, for a matricula that had none.
C27_EmployeeKept == [][C27_Step]_vars

\* A submission for matricula 10 naming school EscB is accepted while the
\* stored row of matricula 10 still names Ana of EscA.
C27_Witness ==
  /\ variant = "P5a" /\ req.op = "P5a.enviar" /\ resp.status = 200
  /\ req.body.matricula = Str(sMat10) /\ req.body.escola = Str(sEscolaB)
  /\ \E f \in emp : /\ f.matricula = Str(sMat10) /\ f.nome = Str(sAna)
                    /\ f.escola = Str(sEscolaA) /\ f.funcao = Str(sProf)


\* After a step that ran ensureMonthSheets(M): every funcionarios row has one
\* folhas row of month M, and the rows of the other months are as they were.
C28_Ensured(M) ==
  /\ \A f \in emp : Cardinality({r \in rec' : r.mes = M /\ r.matricula = f.matricula}) = 1
  /\ {r \in rec' : r.mes # M} = {r \in rec : r.mes # M}

\* rows holds one row of month M per funcionarios row and nothing else.
C28_OnePerEmployee(rows, M) ==
  /\ \A f \in emp : Cardinality({x \in rows : x.matricula = f.matricula}) = 1
  /\ \A x \in rows : x.mes = M /\ \E f \in emp : f.matricula = x.matricula

C28_Step ==
  /\ (req = NoReq /\ req'.op = "P2b.admin.folhas" /\ resp'.status = 200) =>
       LET M == P2b_normalizeMonth(req'.mes, req'.now)
       IN C28_Ensured(M) /\ rec \subseteq rec' /\ C28_OnePerEmployee(resp'.rows, M)
  /\ (req.op = "P2b.folhas.pair" /\ req'.op = "P2b.folhas.pair") =>
       LET M == P2b_normalizeMonth(req.mes, req.now)
       IN /\ C28_Ensured(M) /\ rec \subseteq rec'
          /\ (req'.pa = 2 => C28_OnePerEmployee(req'.ra, M))
          /\ (req'.pb = 2 => C28_OnePerEmployee(req'.rb, M))
  /\ (req = NoReq /\ req'.op \in {"P2b.lancar", "P2b.patch"}
        /\ resp'.status \in {200, 404}) =>
       LET M == P2b_normalizeMonth(req'.body.mes, req'.now)
           target == Str(Trim(JsString(OrElse(
                       IF req'.op = "P2b.lancar" THEN req'.body.matricula
                       ELSE req'.matricula, Empty))))
       IN /\ C28_Ensured(M)
          /\ \A r \in rec : (r.mes = M /\ r.matricula = target) \/ r \in rec'

\* C28: in part_002 (296-680), once ensureMonthSheets(M) has run every
\* funcionarios row has exactly one folhas row of month M, the rows that
\* existed keep their counters and obs, and the other months are unchanged;
\* GET /api/admin/folhas for M answers exactly one row per employee, also
\* when two such calls for M run their statements interleaved.
C28_OneSheetPerEmployee == [][C28_Step]_vars

\* Two interleaved GET /api/admin/folhas of the current month are answered,
\* each with one row for each of the two employees, while the February row
\* that an earlier lancar filled keeps its counters.
C28_Witness ==
  /\ req.op = "P2b.folhas.pair" /\ req.pa = 2 /\ req.pb = 2 /\ req.mes = Undef
  /\ Cardinality(emp) = 2
  /\ Cardinality(req.ra) = 2 /\ Cardinality(req.rb) = 2
  /\ \E r \in rec : r.mes = Str(sFev) /\ r.faltas = Whole(1)
  /\ Cardinality({r \in rec : r.mes = Str(sMar)}) = 2


\* v is a whole number of lo..hi.
C29_Whole(v, lo, hi) ==
  IsNum(v) /\ v.n % Scale = 0 /\ v.n >= lo * Scale /\ v.n <= hi * Scale

\* C29: in server.js (267-758) every registros row, written by POST
\* /api/folha/enviar or by PUT /api/registros/:id from any input, holds an
\* integer horas that is not negative and integers of 0..15 in falta_atestado
\* and falta_sem_atestado.
C29_CountersInRange ==
  variant = "S2" =>
    \A r \in rec : /\ IsNum(r.horas) /\ r.horas.n % Scale = 0 /\ r.horas.n >= 0
                   /\ C29_Whole(r.falta_atestado, 0, 15)
                   /\ C29_Whole(r.falta_sem_atestado, 0, 15)

\* A submission of horas 3.5, falta_atestado 20, falta_sem_atestado -1 is
\* stored as 3, 15, 0, and a PUT of "4.5", "-3", "2.5" is answered 200 beside it.
C29_Witness ==
  /\ req.op = "S2.put" /\ resp.status = 200 /\ IsStr(req.body.horas)
  /\ \E r \in rec : /\ r.id = req.id /\ r.horas = Whole(4)
                    /\ r.falta_atestado = Whole(0) /\ r.falta_sem_atestado = Whole(2)
  /\ \E r \in rec : /\ r.horas = Whole(3) /\ r.falta_atestado = Whole(15)
                    /\ r.falta_sem_atestado = Whole(0)


C30_Step ==
  ( /\ req = NoReq /\ req'.op = "P2b.lancar"
    /\ P2b_normalizeMonth(req'.body.mes, req'.now) # Null
    /\ LET matricula == Str(Trim(JsString(OrElse(req'.body.matricula, Empty))))
       IN matricula # Empty /\ ~\E f \in emp : f.matricula = matricula )
    => resp'.status = 404 /\ rec' = rec

\* C30: POST /api/folha/lancar of part_002 (296-680) for a matricula that has
\* no funcionarios row is answered 404 and leaves the folhas table as it was.
C30_UnknownMatricula == [][C30_Step]_vars

=============================================================================
